---- MODULE Spec2Model ----
(***************************************************************************)
(* Model of the animation rendering engine of my-openrgb-python:           *)
(* the effects of src/utils/effects, and the StageManager of               *)
(* src/stage_manager.py that composes their frames and pushes them to the  *)
(* devices.                                                                *)
(*                                                                         *)
(* Numbers.  Python floats are modelled as exact rationals <<n, d>> in     *)
(* lowest terms with d > 0.  time.monotonic() is the variable now, an      *)
(* integer number of clock ticks; every duration, delay and speed of the   *)
(* code is a rational in tick units, so thresholds can fall on or between  *)
(* the instants at which the code reads the clock.  All clock reads of one *)
(* handler invocation return the same instant.                             *)
(*                                                                         *)
(* Optional values (None or a value) are <<>> or <<v>>.                    *)
(***************************************************************************)
EXTENDS Integers, Sequences, FiniteSets, TLC

VARIABLES
    now,            \* time.monotonic(), in ticks
    fx,             \* the Effect objects: id -> record of the object's fields
    calls,          \* for an effect driven on its own: the arguments of its constructor
                    \* call and the instants of its _update_brightness calls
    effects_map,    \* StageManager._effects_map: device -> sequence of effect ids
    canvases,       \* StageManager._canvases: device -> sequence of RGBColor
    hw,             \* per device: the colors last shown by the hardware (set_colors + show)
    trace,          \* what the manager call just made did, in order: the calls made by
                    \* update(), the warning printed by add_effect(); empty otherwise
    cs,             \* for a ColorSource driven on its own: the object, with its caches
    cs_calls,       \* and the get_hsv_arrays calls made on it
    conn,           \* one call of connect_with_retry: its arguments, its position and
                    \* the attempts it has made
    app             \* one call of run(): its locals, its manager and its devices

vars == <<now, fx, calls, effects_map, canvases, hw, trace, cs, cs_calls, conn, app>>

(***************************************************************************)
(* Bounds                                                                  *)
(***************************************************************************)
MaxTime == 9
MaxEffects == 2

EffectIds == 1..MaxEffects

(***************************************************************************)
(* Rational arithmetic                                                     *)
(***************************************************************************)
Abs(x) == IF x < 0 THEN -x ELSE x

RECURSIVE GCD(_, _)
GCD(a, b) == IF b = 0 THEN a ELSE GCD(b, a % b)

Rat(n, d) ==
    LET s == IF d < 0 THEN -1 ELSE 1
        g == GCD(Abs(n), Abs(d))
    IN  IF n = 0 THEN <<0, 1>> ELSE <<(s * n) \div g, (s * d) \div g>>

R(n) == <<n, 1>>
RAdd(a, b) ==
    LET g == GCD(a[2], b[2])
    IN  Rat(a[1] * (b[2] \div g) + b[1] * (a[2] \div g), (a[2] \div g) * b[2])
RNeg(a) == <<-a[1], a[2]>>
RSub(a, b) == RAdd(a, RNeg(b))
RMul(a, b) == Rat(a[1] * b[1], a[2] * b[2])
RDiv(a, b) == Rat(a[1] * b[2], a[2] * b[1])
RLt(a, b) == a[1] * b[2] < b[1] * a[2]
RLe(a, b) == a[1] * b[2] <= b[1] * a[2]
RGe(a, b) == RLe(b, a)
RGt(a, b) == RLt(b, a)
RMax(a, b) == IF RLt(a, b) THEN b ELSE a
RMin(a, b) == IF RLt(b, a) THEN b ELSE a
RClip(x, lo, hi) == RMin(RMax(x, lo), hi)
\* int(x): truncation toward zero
RInt(x) == IF x[1] >= 0 THEN x[1] \div x[2] ELSE -((-x[1]) \div x[2])

RECURSIVE RPow(_, _)
RPow(x, k) == IF k = 0 THEN R(1) ELSE RMul(x, RPow(x, k - 1))

Max(a, b) == IF a < b THEN b ELSE a
Min(a, b) == IF a < b THEN a ELSE b

None == <<>>
Some(v) == <<v>>

\* np.zeros(n), np.full(n, v), ndarray.fill(v)
Fill(n, v) == [i \in 1..n |-> v]
\* np.flip
Flip(a) == [i \in 1..Len(a) |-> a[Len(a) + 1 - i]]
\* np.linspace(1.0, 0.0, num): element k (0-based) is 1 - k/(num-1); [1.0] when num = 1
Linspace10(num) ==
    [k \in 1..num |-> IF num = 1 THEN R(1) ELSE RSub(R(1), Rat(k - 1, num - 1))]

RECURSIVE RSum(_)
RSum(s) == IF s = <<>> THEN R(0) ELSE RAdd(Head(s), RSum(Tail(s)))


(***************************************************************************)
(* Devices (RGBContainer objects) and their pixel counts, len(dev.leds)    *)
(***************************************************************************)
Devices == {"d1", "d2"}            \* the devices handed to StageManager(devices)
AllDevices == Devices \cup {"d3"}  \* d3 exists but is not managed
\* StageManager.devices: the sequence handed to the constructor
DeviceOrder == <<"d1", "d2">>
StrimmerLeds == 27   \* ZONE_CONFIGS of main.py: led_count of the strimmer zone
FansLeds == 6        \* the pixels of the fans zone that are followed (main.py resizes it to 24)
DramLeds == 3        \* the pixels of a DRAM stick that are followed
NumLeds(d) ==
    CASE d = "d1" -> 2 [] d = "d2" -> 3
      [] d = "strimmer" -> StrimmerLeds [] d = "fans" -> FansLeds
      [] d \in {"dram1", "dram2"} -> DramLeds
      [] OTHER -> 2

(***************************************************************************)
(* Effect base class (effect.py)                                           *)
(***************************************************************************)
\* EffectOptions(**options) with the dataclass defaults for missing keys,
\* except gamma: DEFAULT_GAMMA = 2.9 has no exact model, callers give an integer exponent
EffectOptions(speed, reverse, dither_strength, gamma) ==
    [speed |-> speed, reverse |-> reverse,
     dither_strength |-> dither_strength, gamma |-> gamma]

DefaultOptions == EffectOptions(R(1), FALSE, R(0), 1)

NoEffect == [kind |-> "none"]

\* Effect.__init__ at instant t
Effect_init(kind, rgb_container, color_source, options, t) ==
    [kind |-> kind,
     rgb_container |-> rgb_container,
     color_source |-> color_source,
     options |-> options,
     start_time |-> R(t),
     num_leds |-> NumLeds(rgb_container),
     _is_finished |-> FALSE,
     brightness_array |-> Fill(NumLeds(rgb_container), R(0))]

\* no connect_with_retry call and no run() call is under way
NoConn == [pc |-> "none"]
NoApp == [pc |-> "none"]

\* no ColorSource is driven on its own
NoSource == [kind |-> "none"]
NoSourceCalls == [n |-> 0]

\* Effect.is_finished
is_finished(e) == e._is_finished

(***************************************************************************)
(* StaticBrightness (static.py)                                            *)
(***************************************************************************)
StaticBrightness_init(rgb_container, color_source, brightness, duration, options, t) ==
    LET base == Effect_init("StaticBrightness", rgb_container, color_source, options, t)
        level == RClip(brightness, R(0), R(1))
    IN  [base EXCEPT !.brightness_array = Fill(base.num_leds, level)]
        @@ [brightness_level |-> level, duration |-> duration, _start_time |-> None]

\* a variant that measures the duration from the construction of the effect
StaticBrightness_update_brightness_since_construction(e, t) ==
    LET e1 == IF e._start_time = None THEN [e EXCEPT !._start_time = Some(R(t))] ELSE e
        elapsed == RSub(R(t), e1.start_time)
    IN  IF e1.duration # None /\ RGe(elapsed, e1.duration[1])
        THEN [e1 EXCEPT !._is_finished = TRUE]
        ELSE e1

StaticBrightness_update_brightness(e, t) ==
    LET e1 == IF e._start_time = None THEN [e EXCEPT !._start_time = Some(R(t))] ELSE e
        elapsed == RSub(R(t), e1._start_time[1])
    IN  IF e1.duration # None /\ RGe(elapsed, e1.duration[1])
        THEN [e1 EXCEPT !._is_finished = TRUE]
        ELSE e1

(***************************************************************************)
(* Chase (chase.py)                                                        *)
(***************************************************************************)
Chase_init(rgb_container, color_source, width, delay, duration, loop_interval, resolution_multiplier, options, t) ==
    LET base == Effect_init("Chase", rgb_container, color_source, options, t)
        w == Max(1, width)
        res == Max(1, resolution_multiplier)
    IN  base @@ [width |-> w, delay |-> delay, duration |-> duration,
                 loop_interval |-> RMax(R(0), loop_interval),
                 resolution_multiplier |-> res,
                 _loop_start_time |-> None,
                 high_res_pattern |-> Linspace10(w * res)]

\* a variant of the rendering that stamps the pattern ahead of the head
\* (target_start = int_head_pos, target_end = int_head_pos + len(pattern))
Chase_render_ahead(e, head_position) ==
    LET res == e.resolution_multiplier
        high_res_led_count == e.num_leds * res
        int_head_pos == RInt(RMul(head_position, R(res)))
        target_start == int_head_pos
        target_end == int_head_pos + Len(e.high_res_pattern)
        write_start == Max(0, target_start)
        write_end == Min(high_res_led_count, target_end)
        high_res_canvas(j) ==
            IF write_start < write_end /\ write_start <= j /\ j < write_end
            THEN e.high_res_pattern[(j - target_start) + 1]
            ELSE R(0)
        block(i) == [k \in 1..res |-> high_res_canvas((i - 1) * res + (k - 1))]
    IN  [i \in 1..e.num_leds |-> RDiv(RSum(block(i)), R(res))]

\* steps 4-7 of Chase._update_brightness: stamp the pattern on a high-resolution
\* canvas behind the head, then average each block of resolution_multiplier samples
Chase_render(e, head_position) ==
    LET res == e.resolution_multiplier
        high_res_led_count == e.num_leds * res
        int_head_pos == RInt(RMul(head_position, R(res)))
        target_start == int_head_pos - Len(e.high_res_pattern)
        target_end == int_head_pos
        write_start == Max(0, target_start)
        write_end == Min(high_res_led_count, target_end)
        \* 0-based index j of the high-resolution canvas
        high_res_canvas(j) ==
            IF write_start < write_end /\ write_start <= j /\ j < write_end
            THEN e.high_res_pattern[(j - target_start) + 1]
            ELSE R(0)
        block(i) == [k \in 1..res |-> high_res_canvas((i - 1) * res + (k - 1))]
    IN  [i \in 1..e.num_leds |-> RDiv(RSum(block(i)), R(res))]

\* a variant of the rescheduling that counts the interval from the start of the
\* run that ended (self._loop_start_time += self.loop_interval)
ChaseRunComplete_from_loop_start(e, t) ==
    [e EXCEPT !._loop_start_time = Some(RAdd(e._loop_start_time[1], e.loop_interval)),
              !.brightness_array = Fill(e.num_leds, R(0))]

\* step 3 of Chase._update_brightness, taken when the comet has left the strip:
\* the next run is scheduled and the strip goes blank
ChaseRunComplete(e, t) ==
    [e EXCEPT !._loop_start_time = Some(RAdd(R(t), e.loop_interval)),
              !.brightness_array = Fill(e.num_leds, R(0))]

\* a variant of the run in which the flag follows the completion test of each call
\* (self._is_finished = comet_start_position >= self.num_leds)
Chase_run_assigning(e, t) ==
    IF RLt(R(t), e._loop_start_time[1])
    THEN [e EXCEPT !.brightness_array = Fill(e.num_leds, R(0))]
    ELSE
    LET time_in_loop == RSub(R(t), e._loop_start_time[1])
        head_position == RMul(time_in_loop, e.options.speed)
        comet_start_position == RSub(head_position, R(e.width))
    IN  IF RGe(comet_start_position, R(e.num_leds))
        THEN [ChaseRunComplete(e, t) EXCEPT !._is_finished = TRUE]
        ELSE [e EXCEPT !._is_finished = FALSE,
                       !.brightness_array = Chase_render(e, head_position)]

\* Chase._update_brightness from the wait for the loop start on, _loop_start_time
\* being set
Chase_run(e, t) ==
    IF RLt(R(t), e._loop_start_time[1])
    THEN [e EXCEPT !.brightness_array = Fill(e.num_leds, R(0))]
    ELSE
    LET time_in_loop == RSub(R(t), e._loop_start_time[1])
        head_position == RMul(time_in_loop, e.options.speed)
        comet_start_position == RSub(head_position, R(e.width))
    IN  IF RGe(comet_start_position, R(e.num_leds))
        THEN ChaseRunComplete(e, t)
        ELSE [e EXCEPT !.brightness_array = Chase_render(e, head_position)]

Chase_update_brightness(e, t) ==
    IF e.duration # None /\ RGe(RSub(R(t), e.start_time), e.duration[1])
    THEN [e EXCEPT !._is_finished = TRUE,
                   !.brightness_array = Fill(e.num_leds, R(0))]
    ELSE Chase_run(IF e._loop_start_time = None
                   THEN [e EXCEPT !._loop_start_time = Some(RAdd(e.start_time, e.delay))]
                   ELSE e,
                   t)


(***************************************************************************)
(* LiquidFill (liquid_fill.py)                                             *)
(***************************************************************************)
LiquidFill_init(rgb_container, color_source, wavefront_width, options, t) ==
    Effect_init("LiquidFill", rgb_container, color_source, options, t)
        @@ [wavefront_width |-> Max(1, wavefront_width)]

\* a variant that finishes as soon as the head reaches the end of the strip
LiquidFill_update_brightness_at_strip_end(e, t) ==
    LET elapsed_time == RSub(R(t), e.start_time)
        position == RMul(elapsed_time, e.options.speed)
    IN  IF RGe(position, R(e.num_leds))
        THEN [e EXCEPT !._is_finished = TRUE,
                       !.brightness_array = Fill(e.num_leds, R(1))]
        ELSE [e EXCEPT !.brightness_array =
                 [i \in 1..e.num_leds |->
                     RClip(RDiv(RSub(position, R(i - 1)), R(e.wavefront_width)),
                           R(0), R(1))]]

\* a variant of the update whose ramp rises with the pixel index
LiquidFill_update_brightness_draining(e, t) ==
    LET elapsed_time == RSub(R(t), e.start_time)
        position == RMul(elapsed_time, e.options.speed)
    IN  IF RGe(position, R(e.num_leds + e.wavefront_width))
        THEN [e EXCEPT !._is_finished = TRUE,
                       !.brightness_array = Fill(e.num_leds, R(1))]
        ELSE [e EXCEPT !.brightness_array =
                 [i \in 1..e.num_leds |->
                     RClip(RDiv(RSub(R(i - 1), position), R(e.wavefront_width)),
                           R(0), R(1))]]

\* a variant of the update that writes the ramp without np.clip
LiquidFill_update_brightness_unclipped(e, t) ==
    LET elapsed_time == RSub(R(t), e.start_time)
        position == RMul(elapsed_time, e.options.speed)
    IN  IF RGe(position, R(e.num_leds + e.wavefront_width))
        THEN [e EXCEPT !._is_finished = TRUE,
                       !.brightness_array = Fill(e.num_leds, R(1))]
        ELSE [e EXCEPT !.brightness_array =
                 [i \in 1..e.num_leds |->
                     RDiv(RSub(position, R(i - 1)), R(e.wavefront_width))]]

LiquidFill_update_brightness(e, t) ==
    LET elapsed_time == RSub(R(t), e.start_time)
        position == RMul(elapsed_time, e.options.speed)
    IN  IF RGe(position, R(e.num_leds + e.wavefront_width))
        THEN [e EXCEPT !._is_finished = TRUE,
                       !.brightness_array = Fill(e.num_leds, R(1))]
        ELSE [e EXCEPT !.brightness_array =
                 [i \in 1..e.num_leds |->
                     RClip(RDiv(RSub(position, R(i - 1)), R(e.wavefront_width)),
                           R(0), R(1))]]

(***************************************************************************)
(* FadeToBlack (fade.py) and FadeIn (fade_in.py)                           *)
(***************************************************************************)
\* the floor of both fade durations, max(0.01, duration)
MinFadeDuration == Rat(1, 100)

FadeToBlack_init(rgb_container, color_source, duration, delay, options, t) ==
    Effect_init("FadeToBlack", rgb_container, color_source, options, t)
        @@ [duration |-> RMax(MinFadeDuration, duration), delay |-> RMax(R(0), delay)]

\* a variant that finishes only once the fade time is strictly past the duration
FadeToBlack_update_brightness_past_boundary(e, t) ==
    LET elapsed_time == RSub(R(t), e.start_time)
        fade_elapsed == RSub(elapsed_time, e.delay)
        fade_factor == RClip(RSub(R(1), RDiv(fade_elapsed, e.duration)), R(0), R(1))
    IN  IF RLt(elapsed_time, e.delay) THEN e
        ELSE IF RGt(fade_elapsed, e.duration)
        THEN [e EXCEPT !.brightness_array = Fill(e.num_leds, R(0)),
                       !._is_finished = TRUE]
        ELSE [e EXCEPT !.brightness_array = Fill(e.num_leds, fade_factor)]

FadeToBlack_update_brightness(e, t) ==
    LET elapsed_time == RSub(R(t), e.start_time)
        fade_elapsed == RSub(elapsed_time, e.delay)
        fade_factor == RClip(RSub(R(1), RDiv(fade_elapsed, e.duration)), R(0), R(1))
    IN  IF RLt(elapsed_time, e.delay) THEN e
        ELSE IF RGe(fade_elapsed, e.duration)
        THEN [e EXCEPT !.brightness_array = Fill(e.num_leds, R(0)),
                       !._is_finished = TRUE]
        ELSE [e EXCEPT !.brightness_array = Fill(e.num_leds, fade_factor)]

FadeIn_init(rgb_container, color_source, duration, delay, options, t) ==
    Effect_init("FadeIn", rgb_container, color_source, options, t)
        @@ [duration |-> RMax(MinFadeDuration, duration), delay |-> RMax(R(0), delay)]

FadeIn_update_brightness(e, t) ==
    LET elapsed_time == RSub(R(t), e.start_time)
        fade_elapsed == RSub(elapsed_time, e.delay)
        fade_factor == RClip(RDiv(fade_elapsed, e.duration), R(0), R(1))
    IN  IF RLt(elapsed_time, e.delay)
        THEN [e EXCEPT !.brightness_array = Fill(e.num_leds, R(0))]
        ELSE IF RGe(fade_elapsed, e.duration)
        THEN [e EXCEPT !.brightness_array = Fill(e.num_leds, R(1)),
                       !._is_finished = TRUE]
        ELSE [e EXCEPT !.brightness_array = Fill(e.num_leds, fade_factor)]

(***************************************************************************)
(* ManualBrightnessRamp (manual_ramp.py)                                   *)
(***************************************************************************)
\* level = elapsed / 50.0
ManualRampSeconds == 50

ManualBrightnessRamp_init(rgb_container, color_source, options, t) ==
    Effect_init("ManualBrightnessRamp", rgb_container, color_source, options, t)

ManualBrightnessRamp_update_brightness(e, t) ==
    LET elapsed == RSub(R(t), e.start_time)
        level == RDiv(elapsed, R(ManualRampSeconds))
    IN  IF RGt(level, R(1))
        THEN [e EXCEPT !._is_finished = TRUE,
                       !.brightness_array = Fill(e.num_leds, R(1))]
        ELSE [e EXCEPT !.brightness_array = Fill(e.num_leds, level)]

(***************************************************************************)
(* Breathing (breathing.py)                                                *)
(***************************************************************************)
\* x % m for m > 0 (Python float modulo, result in [0, m))
RMod(x, m) ==
    LET q == RDiv(x, m)
        fl == IF q[1] >= 0 THEN q[1] \div q[2] ELSE -(((-q[1]) + q[2] - 1) \div q[2])
    IN  RSub(x, RMul(R(fl), m))

\* cos(2*pi*u) for u in [0,1) at the points where it is rational
Cos2Pi(u) ==
    CASE u = <<0, 1>> -> R(1)
      [] u = <<1, 6>> -> Rat(1, 2)
      [] u = <<1, 4>> -> R(0)
      [] u = <<1, 3>> -> Rat(-1, 2)
      [] u = <<1, 2>> -> R(-1)
      [] u = <<2, 3>> -> Rat(-1, 2)
      [] u = <<3, 4>> -> R(0)
      [] u = <<5, 6>> -> Rat(1, 2)

\* the floor of the cosine cycle, max(0.1, cycle_duration)
MinCycleDuration == Rat(1, 10)

Breathing_init(rgb_container, color_source, cycle_duration, min_brightness, max_brightness, delay, duration, on_duration, off_duration, transition_duration, options, t) ==
    LET base == Effect_init("Breathing", rgb_container, color_source, options, t)
        maxb == RClip(max_brightness, R(0), R(1))
        minb0 == RClip(min_brightness, R(0), R(1))
        minb == IF RGt(minb0, maxb) THEN maxb ELSE minb0
        td == RMax(R(0), transition_duration)
        trapezoid == on_duration # None /\ off_duration # None
        on == IF trapezoid THEN RMax(R(0), on_duration[1]) ELSE R(0)
        off == IF trapezoid THEN RMax(R(0), off_duration[1]) ELSE R(0)
    IN  base @@ [min_brightness |-> minb, max_brightness |-> maxb,
                 delay |-> delay, duration |-> duration,
                 transition_duration |-> td,
                 mode |-> IF trapezoid THEN "trapezoid" ELSE "cosine",
                 on_duration |-> on, off_duration |-> off,
                 cycle_duration |->
                     IF trapezoid THEN RAdd(RAdd(off, on), RMul(R(2), td))
                     ELSE RMax(MinCycleDuration, cycle_duration)]

Breathing_generate_cosine_wave(e, t) ==
    LET normalized_wave ==
            RDiv(RAdd(Cos2Pi(RMod(RDiv(t, e.cycle_duration), R(1))), R(1)), R(2))
        brightness_range == RSub(e.max_brightness, e.min_brightness)
    IN  RAdd(e.min_brightness, RMul(normalized_wave, brightness_range))

Breathing_generate_trapezoid_wave(e, t) ==
    IF e.cycle_duration = R(0) THEN e.min_brightness
    ELSE
    LET time_in_cycle == RMod(t, e.cycle_duration)
        fade_in_end == e.transition_duration
        on_phase_end == RAdd(fade_in_end, e.on_duration)
        fade_out_end == RAdd(on_phase_end, e.transition_duration)
        range == RSub(e.max_brightness, e.min_brightness)
    IN  IF RLt(time_in_cycle, fade_in_end)
        THEN IF RGt(e.transition_duration, R(0))
             THEN RAdd(e.min_brightness,
                       RMul(RDiv(time_in_cycle, e.transition_duration), range))
             ELSE e.max_brightness
        ELSE IF RLt(time_in_cycle, on_phase_end) THEN e.max_brightness
        ELSE IF RLt(time_in_cycle, fade_out_end)
        THEN IF RGt(e.transition_duration, R(0))
             THEN RSub(e.max_brightness,
                       RMul(RDiv(RSub(time_in_cycle, on_phase_end),
                                 e.transition_duration), range))
             ELSE e.min_brightness
        ELSE e.min_brightness

\* a variant that measures the duration from the end of the initial delay
Breathing_update_brightness_after_delay(e, t) ==
    LET elapsed_since_creation == RSub(R(t), e.start_time)
        animation_time == RMax(R(0), RSub(elapsed_since_creation, e.delay))
        current_brightness ==
            IF e.mode = "trapezoid"
            THEN Breathing_generate_trapezoid_wave(e, animation_time)
            ELSE Breathing_generate_cosine_wave(e, animation_time)
    IN  IF e.duration # None /\ RGe(animation_time, e.duration[1])
        THEN [e EXCEPT !._is_finished = TRUE]
        ELSE [e EXCEPT !.brightness_array = Fill(e.num_leds, current_brightness)]

Breathing_update_brightness(e, t) ==
    LET elapsed_since_creation == RSub(R(t), e.start_time)
        animation_time == RMax(R(0), RSub(elapsed_since_creation, e.delay))
        current_brightness ==
            IF e.mode = "trapezoid"
            THEN Breathing_generate_trapezoid_wave(e, animation_time)
            ELSE Breathing_generate_cosine_wave(e, animation_time)
    IN  IF e.duration # None /\ RGe(elapsed_since_creation, e.duration[1])
        THEN [e EXCEPT !._is_finished = TRUE]
        ELSE [e EXCEPT !.brightness_array = Fill(e.num_leds, current_brightness)]


\* a variant of the constructor that starts in the finishing phase
ChaseRamp_init_finishing(rgb_container, color_source, initial_speed, acceleration, max_speed, initial_width, max_width, flicker_duration, resolution_multiplier, options, t) ==
    LET base == Effect_init("ChaseRamp", rgb_container, color_source, options, t)
    IN  base @@ [initial_speed |-> initial_speed, acceleration |-> acceleration,
                 max_speed |-> max_speed, initial_width |-> initial_width,
                 max_width |-> max_width, flicker_duration |-> flicker_duration,
                 resolution_multiplier |-> Max(1, resolution_multiplier),
                 current_speed |-> max_speed,
                 head_position |-> R(-initial_width),
                 _last_update_time |-> base.start_time,
                 _is_finishing |-> TRUE,
                 _finish_start_time |-> Some(base.start_time)]

(***************************************************************************)
(* ChaseRamp (chase_ramp.py)                                               *)
(***************************************************************************)
ChaseRamp_init(rgb_container, color_source, initial_speed, acceleration, max_speed, initial_width, max_width, flicker_duration, resolution_multiplier, options, t) ==
    LET base == Effect_init("ChaseRamp", rgb_container, color_source, options, t)
    IN  base @@ [initial_speed |-> initial_speed, acceleration |-> acceleration,
                 max_speed |-> max_speed, initial_width |-> initial_width,
                 max_width |-> max_width, flicker_duration |-> flicker_duration,
                 resolution_multiplier |-> Max(1, resolution_multiplier),
                 current_speed |-> initial_speed,
                 head_position |-> R(-initial_width),
                 _last_update_time |-> base.start_time,
                 _is_finishing |-> FALSE,
                 _finish_start_time |-> None]

\* np.roll(a, shift): element i of a moves to index (i + shift) mod len(a)
Roll(a, shift) ==
    IF Len(a) = 0 THEN a
    ELSE [i \in 1..Len(a) |-> a[(((i - 1) - shift) % Len(a)) + 1]]

RECURSIVE RMaxOf(_)
RMaxOf(s) == IF Len(s) = 1 THEN s[1] ELSE RMax(Head(s), RMaxOf(Tail(s)))

\* a variant of the rendering that downsamples by the mean of each block
ChaseRamp_render_averaged(e) ==
    LET speed_range == RSub(e.max_speed, e.initial_speed)
        speed_progress ==
            IF RGt(speed_range, R(0))
            THEN RClip(RDiv(RSub(e.current_speed, e.initial_speed), speed_range),
                       R(0), R(1))
            ELSE R(0)
        current_width ==
            RAdd(R(e.initial_width),
                 RMul(R(e.max_width - e.initial_width), speed_progress))
        res == e.resolution_multiplier
        high_res_leds == e.num_leds * res
        high_res_width == RInt(RMul(current_width, R(res)))
        high_res_head_pos == RMul(e.head_position, R(res))
        high_res_pattern == Linspace10(Max(0, high_res_width))
        stamp_len == Min(Max(0, high_res_width), high_res_leds)
        high_res_canvas ==
            [j \in 1..high_res_leds |->
                IF j <= stamp_len THEN high_res_pattern[j] ELSE R(0)]
        rolled_canvas == Roll(high_res_canvas, RInt(high_res_head_pos))
        block(i) == [k \in 1..res |-> rolled_canvas[(i - 1) * res + k]]
    IN  [i \in 1..e.num_leds |-> RDiv(RSum(block(i)), R(res))]

\* steps 4-6 of ChaseRamp._update_brightness
ChaseRamp_render(e) ==
    LET speed_range == RSub(e.max_speed, e.initial_speed)
        speed_progress ==
            IF RGt(speed_range, R(0))
            THEN RClip(RDiv(RSub(e.current_speed, e.initial_speed), speed_range),
                       R(0), R(1))
            ELSE R(0)
        current_width ==
            RAdd(R(e.initial_width),
                 RMul(R(e.max_width - e.initial_width), speed_progress))
        res == e.resolution_multiplier
        high_res_leds == e.num_leds * res
        high_res_width == RInt(RMul(current_width, R(res)))
        high_res_head_pos == RMul(e.head_position, R(res))
        high_res_pattern == Linspace10(Max(0, high_res_width))
        stamp_len == Min(Max(0, high_res_width), high_res_leds)
        high_res_canvas ==
            [j \in 1..high_res_leds |->
                IF j <= stamp_len THEN high_res_pattern[j] ELSE R(0)]
        rolled_canvas == Roll(high_res_canvas, RInt(high_res_head_pos))
        block(i) == [k \in 1..res |-> rolled_canvas[(i - 1) * res + k]]
    IN  [i \in 1..e.num_leds |-> RMaxOf(block(i))]

\* noise: the np.random.uniform(0, dither_strength, shape) sample of step 7
ChaseRamp_update_brightness(e, t, noise) ==
    LET dt == RSub(R(t), e._last_update_time)
        e0 == [e EXCEPT !._last_update_time = R(t)]
        speed_range == RSub(e.max_speed, e.initial_speed)
    IN  IF e0._is_finishing
           /\ RGe(RSub(R(t), e0._finish_start_time[1]), e0.flicker_duration)
        THEN [e0 EXCEPT !._is_finished = TRUE,
                        !.brightness_array = Fill(e0.num_leds, R(1))]
        ELSE
        LET accelerated == RAdd(e0.current_speed, RMul(e0.acceleration, dt))
            e1 == IF e0._is_finishing
                  THEN [e0 EXCEPT !.current_speed = e0.max_speed]
                  ELSE IF RGt(speed_range, R(0))
                  THEN IF RGe(accelerated, e0.max_speed)
                       THEN [e0 EXCEPT !.current_speed = e0.max_speed,
                                       !._finish_start_time = Some(R(t)),
                                       !._is_finishing = TRUE]
                       ELSE [e0 EXCEPT !.current_speed = accelerated]
                  ELSE e0
            e2 == [e1 EXCEPT !.head_position =
                                RAdd(e1.head_position, RMul(e1.current_speed, dt))]
            rendered == ChaseRamp_render(e2)
        IN  [e2 EXCEPT !.brightness_array =
                IF e2._is_finishing /\ RGt(e2.options.dither_strength, R(0))
                THEN [i \in 1..e2.num_leds |->
                         RClip(RAdd(rendered[i], noise[i]), R(0), R(1))]
                ELSE rendered]

(***************************************************************************)
(* FlickerRamp (flicker_ramp.py)                                           *)
(***************************************************************************)
\* the ceiling of convergence_factor, min(0.999, convergence_factor)
MaxConvergence == Rat(999, 1000)

\* a variant of the timeline loop that shortens the ramps but not the pauses
RECURSIVE FlickerTimeline_fixed_pause(_, _, _, _, _)
FlickerTimeline_fixed_pause(stages, current_time, ramp_duration, pause_duration, f) ==
    IF stages = 0 THEN <<>>
    ELSE LET end_ramp == RAdd(current_time, ramp_duration)
             end_pause == RAdd(end_ramp, pause_duration)
         IN  <<  <<current_time, end_ramp, "ramp">>, <<end_ramp, end_pause, "pause">>  >>
             \o FlickerTimeline_fixed_pause(stages - 1, end_pause,
                                            RMul(ramp_duration, f), pause_duration, f)

\* the timeline loop of FlickerRamp.__init__: num_stages pairs of segments
\* <<start, end, type>>, starting at current_time
RECURSIVE FlickerTimeline(_, _, _, _, _)
FlickerTimeline(stages, current_time, ramp_duration, pause_duration, f) ==
    IF stages = 0 THEN <<>>
    ELSE LET end_ramp == RAdd(current_time, ramp_duration)
             end_pause == RAdd(end_ramp, pause_duration)
         IN  <<  <<current_time, end_ramp, "ramp">>, <<end_ramp, end_pause, "pause">>  >>
             \o FlickerTimeline(stages - 1, end_pause,
                                RMul(ramp_duration, f), RMul(pause_duration, f), f)

FlickerRamp_init(rgb_container, color_source, comet_width, total_duration, num_stages, pause_to_ramp_ratio, convergence_factor, options, t) ==
    LET base == Effect_init("FlickerRamp", rgb_container, color_source, options, t)
        cw == Max(1, comet_width)
        n == Max(1, num_stages)
        f == RMax(R(0), RMin(MaxConvergence, convergence_factor))
        geo_series_sum ==
            IF f = R(1) THEN R(n)
            ELSE RDiv(RSub(R(1), RPow(f, n)), RSub(R(1), f))
        initial_cycle_duration == RDiv(total_duration, geo_series_sum)
        ramp_duration == RDiv(initial_cycle_duration, RAdd(R(1), pause_to_ramp_ratio))
        pause_duration == RSub(initial_cycle_duration, ramp_duration)
        timeline == FlickerTimeline(n, R(0), ramp_duration, pause_duration, f)
    IN  base @@ [comet_width |-> cw,
                 _timeline |-> timeline,
                 total_duration |-> timeline[Len(timeline)][2],
                 pattern_forward |-> Linspace10(cw),
                 pattern_reverse |-> Flip(Linspace10(cw))]

\* FlickerRamp._stamp_pattern: np.maximum of the array and the clipped pattern
FlickerRamp_stamp_pattern(e, array, pattern, head_position, is_reversed) ==
    LET int_head_pos == RInt(head_position)
        target_start == IF is_reversed THEN int_head_pos ELSE int_head_pos - e.comet_width
        target_end == IF is_reversed THEN int_head_pos + e.comet_width ELSE int_head_pos
        write_start == Max(0, target_start)
        write_end == Min(e.num_leds, target_end)
    IN  IF write_start >= write_end THEN array
        ELSE [i \in 1..e.num_leds |->
                 IF write_start <= i - 1 /\ i - 1 < write_end
                 THEN RMax(array[i], pattern[(i - 1 - target_start) + 1])
                 ELSE array[i]]

FlickerRamp_run_ramp(e, progress) ==
    LET eased_progress == RMul(progress, progress)
        head_pos_fwd == RMul(eased_progress, R(e.num_leds))
        head_pos_rev == RSub(R(e.num_leds), RMul(eased_progress, R(e.num_leds)))
        a0 == Fill(e.num_leds, R(0))
        a1 == FlickerRamp_stamp_pattern(e, a0, e.pattern_forward, head_pos_fwd, FALSE)
    IN  FlickerRamp_stamp_pattern(e, a1, e.pattern_reverse, head_pos_rev, TRUE)

\* the segments of the timeline that contain elapsed_time
FlickerSegmentsAt(e, elapsed_time) ==
    SelectSeq(e._timeline,
              LAMBDA seg : RLe(seg[1], elapsed_time) /\ RLt(elapsed_time, seg[2]))

\* a variant of the update that leaves the strip as the last ramp drew it during
\* a pause
FlickerRamp_update_brightness_holding_pause(e, t) ==
    LET elapsed_time == RSub(R(t), e.start_time)
        found == FlickerSegmentsAt(e, elapsed_time)
    IN  IF RGe(elapsed_time, e.total_duration)
        THEN [e EXCEPT !._is_finished = TRUE,
                       !.brightness_array = Fill(e.num_leds, R(1))]
        ELSE IF found = <<>> \/ found[1][3] = "pause"
        THEN e
        ELSE LET seg == found[1]
                 local_progress == RDiv(RSub(elapsed_time, seg[1]), RSub(seg[2], seg[1]))
             IN  [e EXCEPT !.brightness_array = FlickerRamp_run_ramp(e, local_progress)]

FlickerRamp_update_brightness(e, t) ==
    LET elapsed_time == RSub(R(t), e.start_time)
        found == FlickerSegmentsAt(e, elapsed_time)
    IN  IF RGe(elapsed_time, e.total_duration)
        THEN [e EXCEPT !._is_finished = TRUE,
                       !.brightness_array = Fill(e.num_leds, R(1))]
        ELSE IF found = <<>> \/ found[1][3] = "pause"
        THEN [e EXCEPT !.brightness_array = Fill(e.num_leds, R(0))]
        ELSE LET seg == found[1]
                 local_progress == RDiv(RSub(elapsed_time, seg[1]), RSub(seg[2], seg[1]))
             IN  [e EXCEPT !.brightness_array = FlickerRamp_run_ramp(e, local_progress)]


(***************************************************************************)
(* Dispatch on the effect's class                                          *)
(***************************************************************************)
\* a np.random.uniform(0, dither_strength, shape) sample of ChaseRamp's finishing
\* phase: every pixel at the fraction u of the range, u in NoiseLevels
NoiseLevels == {R(0), Rat(1, 2)}
NoiseOf(e, u) == Fill(e.num_leds, RMul(u, e.options.dither_strength))

\* effect._update_brightness() at instant t
update_brightness(e, t, noise) ==
    CASE e.kind = "StaticBrightness" -> StaticBrightness_update_brightness(e, t)
      [] e.kind = "Chase" -> Chase_update_brightness(e, t)
      [] e.kind = "LiquidFill" -> LiquidFill_update_brightness(e, t)
      [] e.kind = "FadeToBlack" -> FadeToBlack_update_brightness(e, t)
      [] e.kind = "FadeIn" -> FadeIn_update_brightness(e, t)
      [] e.kind = "ManualBrightnessRamp" -> ManualBrightnessRamp_update_brightness(e, t)
      [] e.kind = "Breathing" -> Breathing_update_brightness(e, t)
      [] e.kind = "ChaseRamp" -> ChaseRamp_update_brightness(e, t, noise)
      [] e.kind = "FlickerRamp" -> FlickerRamp_update_brightness(e, t)

\* bookkeeping of the calls made on one effect: the arguments and the instant of
\* the constructor call, the instants of the first and of the latest call of
\* _update_brightness, and what is_finished() answered before the latest call
NoCalls == [args |-> NoEffect, constructed |-> None, first |-> None, last |-> None,
            was_finished |-> FALSE]


(***************************************************************************)
(* Color sources and Effect.calculate_frame (effect.py)                    *)
(***************************************************************************)
\* StaticColor(hsv)
StaticColor(hsv, reverse) == [kind |-> "StaticColor", hsv |-> hsv, reverse |-> reverse]

Red == StaticColor(<<R(0), R(1), R(1)>>, FALSE)
Green == StaticColor(<<Rat(1, 3), R(1), R(1)>>, FALSE)
Blue == StaticColor(<<Rat(2, 3), R(1), R(1)>>, FALSE)

\* color_source.get_hs_arrays(num_leds): the hue and the saturation of every pixel
get_hs_arrays(color_source, num_leds) ==
    <<Fill(num_leds, color_source.hsv[1]), Fill(num_leds, color_source.hsv[2])>>

\* colour.HSV_to_RGB of one pixel, then (np.clip(rgb, 0, 1) * 255).astype(np.uint8)
\* and RGBColor(r, g, b)
RGBColor(r, g, b) == <<r, g, b>>
Black == RGBColor(0, 0, 0)

HSV_to_RGB(H, S, V) ==
    LET h6 == RMul(H, R(6))
        h == IF h6 = R(6) THEN R(0) ELSE h6
        i == RInt(h)
        j == RSub(h, R(i))
        k == RMul(V, RSub(R(1), S))
        l == RMul(V, RSub(R(1), RMul(S, j)))
        m == RMul(V, RSub(R(1), RMul(S, RSub(R(1), j))))
        ii == Max(0, Min(5, i))
        rgb == CASE ii = 0 -> <<V, m, k>>
                 [] ii = 1 -> <<l, V, k>>
                 [] ii = 2 -> <<k, V, m>>
                 [] ii = 3 -> <<k, l, V>>
                 [] ii = 4 -> <<m, k, V>>
                 [] ii = 5 -> <<V, k, l>>
        byte(x) == RInt(RMul(RClip(x, R(0), R(1)), R(255)))
    IN  RGBColor(byte(rgb[1]), byte(rgb[2]), byte(rgb[3]))

\* a np.random.uniform(-dither_strength, dither_strength, shape) sample of
\* calculate_frame: every pixel at the fraction u of the strength, u in DitherLevels
DitherLevels == {R(-1), R(0), Rat(1, 2)}
DitherOf(e, u) == Fill(e.num_leds, RMul(u, e.options.dither_strength))

\* the frame computed from the brightness array, after _update_brightness
FrameOf(e, dither) ==
    LET flipped == IF e.options.reverse THEN Flip(e.brightness_array)
                   ELSE e.brightness_array
        dithered == IF RGt(e.options.dither_strength, R(0))
                    THEN [i \in 1..e.num_leds |->
                             RClip(RAdd(flipped[i], dither[i]), R(0), R(1))]
                    ELSE flipped
        final_brightness == [i \in 1..e.num_leds |-> RPow(dithered[i], e.options.gamma)]
        hs == get_hs_arrays(e.color_source, e.num_leds)
    IN  [i \in 1..e.num_leds |-> HSV_to_RGB(hs[1][i], hs[2][i], final_brightness[i])]

\* effect.calculate_frame() at instant t: the effect after the call, and the frame
calculate_frame(e, t, rnd) ==
    LET e2 == update_brightness(e, t, NoiseOf(e, rnd.noise))
    IN  [effect |-> e2, frame |-> FrameOf(e2, DitherOf(e, rnd.dither))]

\* the random samples drawn during one call
Randoms == [noise : NoiseLevels, dither : DitherLevels]


(***************************************************************************)
(* Construction of an effect from the arguments of a constructor call      *)
(***************************************************************************)
Construct(a, t) ==
    CASE a.kind = "StaticBrightness" ->
            StaticBrightness_init(a.rgb_container, a.color_source, a.brightness,
                                  a.duration, a.options, t)
      [] a.kind = "Chase" ->
            Chase_init(a.rgb_container, a.color_source, a.width, a.delay, a.duration,
                       a.loop_interval, a.resolution_multiplier, a.options, t)
      [] a.kind = "LiquidFill" ->
            LiquidFill_init(a.rgb_container, a.color_source, a.wavefront_width,
                            a.options, t)
      [] a.kind = "FadeToBlack" ->
            FadeToBlack_init(a.rgb_container, a.color_source, a.duration, a.delay,
                             a.options, t)
      [] a.kind = "FadeIn" ->
            FadeIn_init(a.rgb_container, a.color_source, a.duration, a.delay,
                        a.options, t)
      [] a.kind = "ManualBrightnessRamp" ->
            ManualBrightnessRamp_init(a.rgb_container, a.color_source, a.options, t)
      [] a.kind = "Breathing" ->
            Breathing_init(a.rgb_container, a.color_source, a.cycle_duration,
                           a.min_brightness, a.max_brightness, a.delay, a.duration,
                           a.on_duration, a.off_duration, a.transition_duration,
                           a.options, t)
      [] a.kind = "ChaseRamp" ->
            ChaseRamp_init(a.rgb_container, a.color_source, a.initial_speed,
                           a.acceleration, a.max_speed, a.initial_width, a.max_width,
                           a.flicker_duration, a.resolution_multiplier, a.options, t)
      [] a.kind = "FlickerRamp" ->
            FlickerRamp_init(a.rgb_container, a.color_source, a.comet_width,
                             a.total_duration, a.num_stages, a.pause_to_ramp_ratio,
                             a.convergence_factor, a.options, t)

(***************************************************************************)
(* StageManager (stage_manager.py)                                         *)
(***************************************************************************)
\* StageManager.__init__: an empty effect list and a black canvas per device
StageManager_init ==
    /\ effects_map = [d \in Devices |-> <<>>]
    /\ canvases = [d \in Devices |-> Fill(NumLeds(d), Black)]

\* a variant of the blend that paints only the pixels no earlier effect has painted
Blend_underneath(canvas, effect_frame) ==
    [i \in 1..Len(canvas) |->
        IF i <= Len(effect_frame) /\ canvas[i] = Black THEN effect_frame[i]
        ELSE canvas[i]]

\* the blend loop of update(): for i, color in enumerate(effect_frame):
\*     if i < len(canvas): canvas[i] = color
Blend(canvas, effect_frame) ==
    [i \in 1..Len(canvas) |->
        IF i <= Len(effect_frame) THEN effect_frame[i] ELSE canvas[i]]

\* a variant of the cleanup that keeps every effect
Keep_all(effects_to_keep, id, effect) == Append(effects_to_keep, id)

\* if not effect.is_finished(): effects_to_keep.append(effect)
Keep(effects_to_keep, id, effect) ==
    IF ~is_finished(effect) THEN Append(effects_to_keep, id) ELSE effects_to_keep

\* the loop over active_effects of update(), from position k on (the frame r of
\* the effect is computed once: effect_frame = effect.calculate_frame()).  st carries the
\* effect objects, the canvas of the device, effects_to_keep and the call trace:
\* <<"calculate_frame", id>>, <<"paint", device, n>> for the blend of that frame, which
\* writes the first n pixels of the canvas, and
\* <<"is_finished", id, answer>>.
RECURSIVE RenderEffects(_, _, _, _, _, _)
RenderEffects(active_effects, k, st, device, t, rnd) ==
    IF k > Len(active_effects) THEN st
    ELSE
    LET id == active_effects[k]
    IN  CHOOSE out \in
            {RenderEffects(active_effects, k + 1,
                 [st EXCEPT !.fx[id] = r.effect,
                            !.canvas = Blend(@, r.frame),
                            !.effects_to_keep = Keep(@, id, r.effect),
                            !.trace = @ \o << <<"calculate_frame", id>>,
                                              <<"paint", device,
                                                Min(Len(r.frame), Len(st.canvas))>>,
                                              <<"is_finished", id, is_finished(r.effect)>> >>],
                 device, t, rnd) : r \in {calculate_frame(st.fx[id], t, rnd)}} : TRUE

\* a variant of the reset that starts from a new, empty canvas
ResetCanvas_emptied(canvas) == <<>>

\* a variant of the reset that leaves the canvas as the last update() painted it
ResetCanvas_kept(canvas) == canvas

\* phase 1 of update(): for i in range(len(canvas)): canvas[i] = RGBColor(0, 0, 0)
ResetCanvas(canvas) == [i \in 1..Len(canvas) |-> Black]

\* the loop over self._effects_map.items() of update(), from device i on
\* (a dict iterates in insertion order, the order of the constructor's list)
RECURSIVE RenderDevices(_, _, _, _)
RenderDevices(i, st, t, rnd) ==
    IF i > Len(DeviceOrder) THEN st
    ELSE
    LET device == DeviceOrder[i]
        st0 == [st EXCEPT !.canvas = ResetCanvas(st.canvases[device]),
                          !.effects_to_keep = <<>>,
                          !.trace = Append(@, <<"reset", device>>)]
    IN  CHOOSE out \in
            {RenderDevices(i + 1,
                 [st1 EXCEPT !.canvases[device] = st1.canvas,
                             !.effects_map[device] = st1.effects_to_keep],
                 t, rnd) :
             st1 \in {RenderEffects(st.effects_map[device], 1, st0, device, t, rnd)}} : TRUE

\* phase 3 of update(): set_colors and show, device by device
RECURSIVE ShowDevices(_, _)
ShowDevices(i, st) ==
    IF i > Len(DeviceOrder) THEN st
    ELSE LET device == DeviceOrder[i]
         IN  ShowDevices(i + 1,
                 [st EXCEPT !.hw[device] = Some(st.canvases[device]),
                            !.trace = Append(@, <<"show", device>>)])

\* a variant of update() that pushes each device at the end of its pass of the
\* first loop
RECURSIVE RenderAndShowDevices(_, _, _, _)
RenderAndShowDevices(i, st, t, rnd) ==
    IF i > Len(DeviceOrder) THEN st
    ELSE
    LET device == DeviceOrder[i]
        st0 == [st EXCEPT !.canvas = ResetCanvas(st.canvases[device]),
                          !.effects_to_keep = <<>>,
                          !.trace = Append(@, <<"reset", device>>)]
    IN  CHOOSE out \in
            {RenderAndShowDevices(i + 1,
                 [st1 EXCEPT !.canvases[device] = st1.canvas,
                             !.effects_map[device] = st1.effects_to_keep,
                             !.hw[device] = Some(st1.canvas),
                             !.trace = Append(@, <<"show", device>>)],
                 t, rnd) :
             st1 \in {RenderEffects(st.effects_map[device], 1, st0, device, t, rnd)}} : TRUE

StageManager_update_pushing_in_loop(t, rnd) ==
    RenderAndShowDevices(1,
        [fx |-> fx, effects_map |-> effects_map,
         canvases |-> canvases, hw |-> hw, trace |-> <<>>,
         canvas |-> <<>>, effects_to_keep |-> <<>>],
        t, rnd)

StageManager_update(t, rnd) ==
    LET st0 == [fx |-> fx, effects_map |-> effects_map,
                canvases |-> canvases, hw |-> hw, trace |-> <<>>,
                canvas |-> <<>>, effects_to_keep |-> <<>>]
    IN  ShowDevices(1, RenderDevices(1, st0, t, rnd))


(***************************************************************************)
(* The manager and its callers                                             *)
(***************************************************************************)
MgrMaxTime == 1    \* the callers of the manager stop the clock here

\* the effects the callers construct
MgrInputs ==
    {[kind |-> "StaticBrightness", rgb_container |-> "d1", color_source |-> Red,
      brightness |-> R(1), duration |-> None, options |-> DefaultOptions],
     [kind |-> "StaticBrightness", rgb_container |-> "d1", color_source |-> Green,
      brightness |-> R(1), duration |-> Some(R(1)), options |-> DefaultOptions],
     [kind |-> "StaticBrightness", rgb_container |-> "d3", color_source |-> Red,
      brightness |-> R(1), duration |-> None, options |-> DefaultOptions],
     [kind |-> "ChaseRamp", rgb_container |-> "d2", color_source |-> Blue,
      initial_speed |-> R(1), acceleration |-> R(1), max_speed |-> R(2),
      initial_width |-> 1, max_width |-> 1, flicker_duration |-> R(0),
      resolution_multiplier |-> 1,
      options |-> EffectOptions(R(1), FALSE, R(0), 2)]}

\* the effect ids held by some list of the manager
Listed(map) == UNION {{map[d][i] : i \in 1..Len(map[d])} : d \in DOMAIN map}

\* the number of entries of all the lists together
RECURSIVE Entries(_, _)
Entries(map, i) ==
    IF i > Len(DeviceOrder) THEN 0
    ELSE Len(map[DeviceOrder[i]]) + Entries(map, i + 1)

\* the effect objects alive when the lists are map: the callers keep no reference
\* to an effect that has left the lists, so the objects are those the lists hold
Alive(f, map) == [e \in EffectIds |-> IF e \in Listed(map) THEN f[e] ELSE NoEffect]

Init ==
    /\ now = 0
    /\ fx = [e \in EffectIds |-> NoEffect]
    /\ calls = NoCalls
    /\ StageManager_init
    /\ hw = [d \in AllDevices |-> None]
    /\ cs = NoSource
    /\ cs_calls = NoSourceCalls
    /\ conn = NoConn
    /\ app = NoApp
    /\ trace = <<>>

\* a variant of add_effect that opens a list for a device it has not seen
\* (self._effects_map.setdefault(device, []).append(effect))
StageManager_add_effect_setdefault(e, effect) ==
    LET device == effect.rgb_container
    IN  [effects_map |->
            [d \in DOMAIN effects_map \cup {device} |->
                IF d = device
                THEN (IF d \in DOMAIN effects_map THEN Append(effects_map[d], e)
                      ELSE <<e>>)
                ELSE effects_map[d]],
         printed |-> <<>>]

\* StageManager.add_effect(effect), effect being the object e: the effect lists
\* after the call, and what the call printed
StageManager_add_effect(e, effect) ==
    LET device == effect.rgb_container
    IN  IF device \in DOMAIN effects_map
        THEN [effects_map |-> [effects_map EXCEPT ![device] = Append(@, e)],
              printed |-> <<>>]
        ELSE [effects_map |-> effects_map,
              printed |-> << <<"print", "Warning", device>> >>]

\* the lists the callers build hold MaxEffects entries at most
ListRoom(effect) ==
    effect.rgb_container \in DOMAIN effects_map => Entries(effects_map, 1) < MaxEffects

\* manager.add_effect(SomeEffect(...)): a caller constructs an effect and adds it
add_new_effect(e, a) ==
    /\ fx[e] = NoEffect
    /\ \A e2 \in 1..(e - 1) : fx[e2] # NoEffect
    /\ \E effect \in {Construct(a, now)} :
          /\ ListRoom(effect)
          /\ \E added \in {StageManager_add_effect(e, effect)} :
                /\ effects_map' = added.effects_map
                /\ fx' = Alive([fx EXCEPT ![e] = effect], effects_map')
                /\ trace' = added.printed
    /\ UNCHANGED <<now, calls, canvases, hw, cs, cs_calls, conn, app>>

\* manager.add_effect(effect) again, with an effect object that a list holds
add_effect(e) ==
    /\ fx[e] # NoEffect
    /\ ListRoom(fx[e])
    /\ effects_map' = StageManager_add_effect(e, fx[e]).effects_map
    /\ trace' = StageManager_add_effect(e, fx[e]).printed
    /\ UNCHANGED <<now, fx, calls, canvases, hw, cs, cs_calls, conn, app>>

\* a variant of clear_effects that empties the list of every device
StageManager_clear_effects_everywhere(map, device) == [d \in DOMAIN map |-> <<>>]

\* StageManager.clear_effects(device): the effect lists after the call
\* (if device in self._effects_map: self._effects_map[device].clear())
StageManager_clear_effects(map, device) ==
    IF device \in DOMAIN map THEN [map EXCEPT ![device] = <<>>] ELSE map

\* the loop of clear_all_effects() from device i on:
\* for device in self.devices: self.clear_effects(device)
RECURSIVE ClearDevices(_, _)
ClearDevices(i, map) ==
    IF i > Len(DeviceOrder) THEN map
    ELSE ClearDevices(i + 1, StageManager_clear_effects(map, DeviceOrder[i]))

\* manager.clear_effects(device), of any device the callers hold
clear_effects(device) ==
    /\ effects_map' = StageManager_clear_effects(effects_map, device)
    /\ fx' = Alive(fx, effects_map')
    /\ trace' = <<>>
    /\ UNCHANGED <<now, calls, canvases, hw, cs, cs_calls, conn, app>>

\* manager.clear_all_effects()
clear_all_effects ==
    /\ effects_map' = ClearDevices(1, effects_map)
    /\ fx' = Alive(fx, effects_map')
    /\ trace' = <<>>
    /\ UNCHANGED <<now, calls, canvases, hw, cs, cs_calls, conn, app>>

\* the samples that one update() can draw: only an effect with dither_strength > 0
\* draws any
Dithering == \E e \in Listed(effects_map) : RGt(fx[e].options.dither_strength, R(0))
UpdateRandoms == IF Dithering THEN Randoms ELSE {[noise |-> R(0), dither |-> R(0)]}

update ==
    \E rnd \in UpdateRandoms :
        \E st \in {StageManager_update(now, rnd)} :
            /\ fx' = Alive(st.fx, st.effects_map)
            /\ effects_map' = st.effects_map
            /\ canvases' = st.canvases
            /\ hw' = st.hw
            /\ trace' = st.trace
            /\ UNCHANGED <<now, calls, cs, cs_calls, conn, app>>

tick ==
    /\ now < MgrMaxTime
    /\ now' = now + 1
    /\ trace' = <<>>
    /\ UNCHANGED <<fx, calls, effects_map, canvases, hw, cs, cs_calls, conn, app>>

Next ==
    \/ \E e \in EffectIds, a \in MgrInputs : add_new_effect(e, a)
    \/ \E e \in EffectIds : add_effect(e)
    \/ \E d \in AllDevices : clear_effects(d)
    \/ clear_all_effects
    \/ update
    \/ tick

Spec == Init /\ [][Next]_vars


(***************************************************************************)
(* One effect driven on its own: constructed, then updated at instants of  *)
(* the caller's choice                                                     *)
(***************************************************************************)
Opt(speed) == EffectOptions(speed, FALSE, R(0), 1)

ChaseArgs(width, delay, duration, loop_interval, speed) ==
    [kind |-> "Chase", rgb_container |-> "d1", color_source |-> Red, width |-> width,
     delay |-> delay, duration |-> duration, loop_interval |-> loop_interval,
     resolution_multiplier |-> 2, options |-> Opt(speed)]

StaticArgs(brightness, duration) ==
    [kind |-> "StaticBrightness", rgb_container |-> "d1", color_source |-> Red,
     brightness |-> brightness, duration |-> duration, options |-> DefaultOptions]

FlickerArgs(total_duration, num_stages, pause_to_ramp_ratio, convergence_factor) ==
    [kind |-> "FlickerRamp", rgb_container |-> "d2", color_source |-> Red,
     comet_width |-> 2, total_duration |-> total_duration, num_stages |-> num_stages,
     pause_to_ramp_ratio |-> pause_to_ramp_ratio,
     convergence_factor |-> convergence_factor, options |-> DefaultOptions]

\* the constructor calls explored
FxInputs ==
    {ChaseArgs(1, R(0), None, R(0), R(1)),
     ChaseArgs(1, R(1), None, R(-1), Rat(3, 2)),
     ChaseArgs(1, R(1), None, R(2), Rat(3, 2)),
     ChaseArgs(2, R(0), None, Rat(3, 2), R(2)),
     ChaseArgs(1, R(0), Some(R(3)), R(1), R(2)),
     [ChaseArgs(2, R(0), None, R(0), R(1)) EXCEPT !.resolution_multiplier = 1],
     StaticArgs(R(1), None),
     StaticArgs(Rat(1, 2), Some(R(2))),
     StaticArgs(Rat(3, 2), Some(Rat(3, 2))),
     [kind |-> "StaticBrightness", rgb_container |-> "d1",
      color_source |-> StaticColor(<<R(0), R(1), R(0)>>, FALSE),
      brightness |-> R(1), duration |-> None, options |-> DefaultOptions],
     [kind |-> "StaticBrightness", rgb_container |-> "d1",
      color_source |-> StaticColor(<<Rat(1, 3), R(1), Rat(1, 2)>>, FALSE),
      brightness |-> Rat(1, 2), duration |-> None,
      options |-> EffectOptions(R(1), FALSE, Rat(1, 4), 2)],
     FlickerArgs(R(4), 2, R(1), Rat(1, 2)),
     FlickerArgs(Rat(5, 2), 3, R(0), R(0)),
     FlickerArgs(R(3), 0, Rat(1, 2), Rat(7, 10)),
     FlickerArgs(R(2), 2, R(2), Rat(999, 1000)),
     FlickerArgs(R(3), 2, R(1), R(2)),
     [kind |-> "LiquidFill", rgb_container |-> "d1", color_source |-> Red,
      wavefront_width |-> 2, options |-> Opt(Rat(3, 2))],
     [kind |-> "LiquidFill", rgb_container |-> "d1", color_source |-> Red,
      wavefront_width |-> 0, options |-> Opt(R(1))],
     [kind |-> "FadeToBlack", rgb_container |-> "d1", color_source |-> Red,
      duration |-> R(2), delay |-> R(1), options |-> DefaultOptions],
     [kind |-> "FadeIn", rgb_container |-> "d1", color_source |-> Red,
      duration |-> Rat(5, 2), delay |-> R(1), options |-> DefaultOptions],
     [kind |-> "FadeIn", rgb_container |-> "d1", color_source |-> Red,
      duration |-> R(0), delay |-> R(-1), options |-> DefaultOptions],
     [kind |-> "FadeToBlack", rgb_container |-> "d1", color_source |-> Red,
      duration |-> Rat(3, 2), delay |-> R(0), options |-> DefaultOptions],
     [kind |-> "ManualBrightnessRamp", rgb_container |-> "d1", color_source |-> Red,
      options |-> DefaultOptions],
     [kind |-> "Breathing", rgb_container |-> "d1", color_source |-> Red,
      cycle_duration |-> R(4), min_brightness |-> R(0), max_brightness |-> R(1),
      delay |-> R(1), duration |-> Some(R(5)), on_duration |-> None,
      off_duration |-> None, transition_duration |-> R(1), options |-> DefaultOptions],
     [kind |-> "Breathing", rgb_container |-> "d1", color_source |-> Red,
      cycle_duration |-> R(4), min_brightness |-> Rat(1, 4), max_brightness |-> R(1),
      delay |-> R(0), duration |-> None, on_duration |-> Some(R(1)),
      off_duration |-> Some(R(1)), transition_duration |-> Rat(1, 2),
      options |-> DefaultOptions],
     [kind |-> "Breathing", rgb_container |-> "d1", color_source |-> Red,
      cycle_duration |-> R(4), min_brightness |-> R(0), max_brightness |-> R(1),
      delay |-> R(3), duration |-> Some(R(2)), on_duration |-> None,
      off_duration |-> None, transition_duration |-> R(1), options |-> DefaultOptions],
     [kind |-> "Breathing", rgb_container |-> "d1", color_source |-> Red,
      cycle_duration |-> R(4), min_brightness |-> R(0), max_brightness |-> Rat(1, 2),
      delay |-> R(0), duration |-> Some(Rat(7, 2)), on_duration |-> Some(R(1)),
      off_duration |-> Some(R(2)), transition_duration |-> R(1),
      options |-> DefaultOptions],
     [kind |-> "ChaseRamp", rgb_container |-> "d1", color_source |-> Red,
      initial_speed |-> R(3), acceleration |-> R(1), max_speed |-> R(2),
      initial_width |-> 1, max_width |-> 2, flicker_duration |-> R(1),
      resolution_multiplier |-> 1, options |-> DefaultOptions],
     [kind |-> "ChaseRamp", rgb_container |-> "d1", color_source |-> Red,
      initial_speed |-> R(1), acceleration |-> Rat(-1, 2), max_speed |-> R(2),
      initial_width |-> 1, max_width |-> 2, flicker_duration |-> R(1),
      resolution_multiplier |-> 1, options |-> DefaultOptions],
     [kind |-> "ChaseRamp", rgb_container |-> "d1", color_source |-> Red,
      initial_speed |-> R(1), acceleration |-> R(1), max_speed |-> R(3),
      initial_width |-> 1, max_width |-> 2, flicker_duration |-> R(2),
      resolution_multiplier |-> 2,
      options |-> EffectOptions(R(1), FALSE, Rat(1, 2), 1)]}

\* the effect under test is object 1
Fx == fx[1]

\* how far the clock runs for the effect constructed with the arguments a
Horizon(a) ==
    IF a.kind = "ManualBrightnessRamp" THEN MaxTime + ManualRampSeconds ELSE MaxTime

InitFx ==
    /\ now \in {0, 1}
    /\ \E a \in FxInputs :
        /\ fx = [e \in EffectIds |-> IF e = 1 THEN Construct(a, now) ELSE NoEffect]
        /\ calls = [NoCalls EXCEPT !.args = a, !.constructed = Some(now)]
    /\ StageManager_init
    /\ hw = [d \in AllDevices |-> None]
    /\ cs = NoSource
    /\ cs_calls = NoSourceCalls
    /\ conn = NoConn
    /\ app = NoApp
    /\ trace = <<>>

\* the clock advances by dt between two calls
FxTick(dt) ==
    /\ now + dt <= Horizon(calls.args)
    /\ now' = now + dt
    /\ UNCHANGED <<fx, calls, effects_map, canvases, hw, trace, cs, cs_calls, conn, app>>

\* one call of effect._update_brightness(), as calculate_frame() makes it
FxUpdate ==
    \E u \in NoiseLevels :
        /\ fx' = [fx EXCEPT ![1] = update_brightness(Fx, now, NoiseOf(Fx, u))]
        /\ calls' = [calls EXCEPT !.first = IF @ = None THEN Some(now) ELSE @,
                                  !.last = Some(now),
                                  !.was_finished = is_finished(Fx)]
        /\ UNCHANGED <<now, effects_map, canvases, hw, trace, cs, cs_calls, conn, app>>

NextFx ==
    \/ \E dt \in {1, ManualRampSeconds} : FxTick(dt)
    \/ FxUpdate

SpecFx == InitFx /\ [][NextFx]_vars


(***************************************************************************)
(* Color sources (color_source.py)                                         *)
(***************************************************************************)
\* Python round(x) of x >= 0: to the nearest integer, a tie to the even one
PyRound(x) ==
    LET fl == x[1] \div x[2]
        twice == 2 * (x[1] - fl * x[2])
    IN  IF twice < x[2] THEN fl
        ELSE IF twice > x[2] THEN fl + 1
        ELSE IF fl % 2 = 0 THEN fl ELSE fl + 1

\* np.linspace(a, b, num)
Linspace(a, b, num) ==
    [k \in 1..num |->
        IF num = 1 THEN a ELSE RAdd(a, RMul(Rat(k - 1, num - 1), RSub(b, a)))]

\* the three channels of an HSV array triple
Channels == 1..3

\* Gradient(start_hsv, end_hsv, start_pos, end_pos, reverse)
Gradient(start_hsv, end_hsv, start_pos, end_pos, reverse) ==
    LET start_pos_clamped == RMax(R(0), RMin(R(1), start_pos))
        end_pos_clamped == RMax(R(0), RMin(R(1), end_pos))
    IN  [kind |-> "Gradient", start_hsv |-> start_hsv, end_hsv |-> end_hsv,
         start_pos |-> RMin(start_pos_clamped, end_pos_clamped),
         end_pos |-> RMax(start_pos_clamped, end_pos_clamped),
         reverse |-> reverse]

\* the stops sorted by position, stops of equal position in their given order
RECURSIVE SortedStops(_)
SortedStops(stops) ==
    IF Len(stops) <= 1 THEN stops
    ELSE LET rest == SortedStops(Tail(stops))
             first == Head(stops)
             before == SelectSeq(rest, LAMBDA st : RLt(st[2], first[2]))
             after == SelectSeq(rest, LAMBDA st : ~RLt(st[2], first[2]))
         IN  before \o <<first>> \o after

\* MultiGradient(stops, reverse), stops a sequence of <<hsv, pos>>
MultiGradient(stops, reverse) ==
    LET sanitized_stops ==
            [i \in 1..Len(stops) |->
                <<stops[i][1], RMax(R(0), RMin(R(1), stops[i][2]))>>]
    IN  [kind |-> "MultiGradient", stops |-> SortedStops(sanitized_stops),
         reverse |-> reverse]

StaticColor_generate_arrays(self, num_leds) ==
    [c \in Channels |-> Fill(num_leds, self.hsv[c])]

\* a variant whose ramp reaches the end color on the last pixel of the ramp's range
Gradient_generate_arrays_full_ramp(self, num_leds) ==
    IF num_leds = 0 THEN [c \in Channels |-> <<>>]
    ELSE
    LET start_idx == PyRound(RMul(self.start_pos, R(num_leds - 1)))
        end_idx == PyRound(RMul(self.end_pos, R(num_leds - 1)))
    IN  [c \in Channels |->
            Fill(start_idx, self.start_hsv[c])
            \o Linspace(self.start_hsv[c], self.end_hsv[c], end_idx - start_idx + 1)
            \o Fill(num_leds - end_idx - 1, self.end_hsv[c])]

Gradient_generate_arrays(self, num_leds) ==
    IF num_leds = 0 THEN [c \in Channels |-> <<>>]
    ELSE
    LET start_idx == PyRound(RMul(self.start_pos, R(num_leds - 1)))
        end_idx == PyRound(RMul(self.end_pos, R(num_leds - 1)))
        num_start_solid == start_idx
        gradient_width == end_idx - start_idx
        num_end_solid == num_leds - end_idx
    IN  [c \in Channels |->
            Fill(num_start_solid, self.start_hsv[c])
            \o (IF gradient_width > 0
                THEN Linspace(self.start_hsv[c], self.end_hsv[c], gradient_width)
                ELSE <<>>)
            \o Fill(num_end_solid, self.end_hsv[c])]

\* the segments appended by the loop over the pairs of consecutive stops, from pair i on
RECURSIVE MultiGradientSegments(_, _, _, _)
MultiGradientSegments(stops, i, num_leds, c) ==
    IF i > Len(stops) - 1 THEN <<>>
    ELSE LET start_idx == PyRound(RMul(stops[i][2], R(num_leds - 1)))
             end_idx == PyRound(RMul(stops[i + 1][2], R(num_leds - 1)))
             width == end_idx - start_idx
         IN  (IF width > 0
              THEN Linspace(stops[i][1][c], stops[i + 1][1][c], width)
              ELSE <<>>)
             \o MultiGradientSegments(stops, i + 1, num_leds, c)

\* ndarray.resize(n): cut, or padded with zeros
Resize(a, n) == [i \in 1..n |-> IF i <= Len(a) THEN a[i] ELSE R(0)]

MultiGradient_generate_arrays(self, num_leds) ==
    IF num_leds = 0 THEN [c \in Channels |-> <<>>]
    ELSE IF Len(self.stops) = 0 THEN [c \in Channels |-> Fill(num_leds, R(0))]
    ELSE IF Len(self.stops) = 1
    THEN [c \in Channels |-> Fill(num_leds, self.stops[1][1][c])]
    ELSE
    LET first_idx == PyRound(RMul(self.stops[1][2], R(num_leds - 1)))
        last == self.stops[Len(self.stops)]
        last_idx == PyRound(RMul(last[2], R(num_leds - 1)))
        num_end == num_leds - last_idx
        final(c) ==
            Fill(first_idx, self.stops[1][1][c])
            \o MultiGradientSegments(self.stops, 1, num_leds, c)
            \o (IF num_end > 0 THEN Fill(num_end, last[1][c]) ELSE <<>>)
    IN  [c \in Channels |->
            IF Len(final(c)) # num_leds THEN Resize(final(c), num_leds) ELSE final(c)]

\* self._generate_arrays(num_leds) of the static sources
generate_arrays(self, num_leds) ==
    CASE self.kind = "StaticColor" -> StaticColor_generate_arrays(self, num_leds)
      [] self.kind = "Gradient" -> Gradient_generate_arrays(self, num_leds)
      [] self.kind = "MultiGradient" -> MultiGradient_generate_arrays(self, num_leds)

\* a dict with no key, and d[k] = v
EmptyDict == [k \in {} |-> 0]
Put(d, k, v) == [j \in DOMAIN d \cup {k} |-> IF j = k THEN v ELSE d[j]]

\* ColorSource.__init__ of an object of the class described by self: empty caches
ColorSource_init(self) ==
    [self |-> self, _hues |-> EmptyDict, _sats |-> EmptyDict, _vals |-> EmptyDict]

FlipAll(arrays) == [c \in Channels |-> Flip(arrays[c])]

\* a variant that never looks into the cache: it generates the arrays on every call
ColorSource_get_hsv_arrays_regenerating(obj, num_leds) ==
    LET cached == generate_arrays(obj.self, num_leds)
        obj2 == [obj EXCEPT !._hues = Put(obj._hues, num_leds, cached[1]),
                            !._sats = Put(obj._sats, num_leds, cached[2]),
                            !._vals = Put(obj._vals, num_leds, cached[3])]
    IN  [obj |-> obj2,
         out |-> IF obj.self.reverse THEN FlipAll(cached) ELSE cached,
         generated |-> 1]

\* a variant that applies the flag when it fills the cache and returns the cached
\* arrays as they are
ColorSource_get_hsv_arrays_baking(obj, num_leds) ==
    LET miss == num_leds \notin DOMAIN obj._hues
        generated == generate_arrays(obj.self, num_leds)
        arrays == IF obj.self.reverse THEN FlipAll(generated) ELSE generated
        obj2 == IF miss
                THEN [obj EXCEPT !._hues = Put(obj._hues, num_leds, arrays[1]),
                                 !._sats = Put(obj._sats, num_leds, arrays[2]),
                                 !._vals = Put(obj._vals, num_leds, arrays[3])]
                ELSE obj
    IN  [obj |-> obj2,
         out |-> <<obj2._hues[num_leds], obj2._sats[num_leds], obj2._vals[num_leds]>>,
         generated |-> IF miss THEN 1 ELSE 0]

\* ColorSource.get_hsv_arrays(num_leds): the object after the call, the arrays
\* returned, and the number of _generate_arrays calls made
ColorSource_get_hsv_arrays(obj, num_leds) ==
    LET miss == num_leds \notin DOMAIN obj._hues
        arrays == generate_arrays(obj.self, num_leds)
        obj2 == IF miss
                THEN [obj EXCEPT !._hues = Put(obj._hues, num_leds, arrays[1]),
                                 !._sats = Put(obj._sats, num_leds, arrays[2]),
                                 !._vals = Put(obj._vals, num_leds, arrays[3])]
                ELSE obj
        to_return == <<obj2._hues[num_leds], obj2._sats[num_leds], obj2._vals[num_leds]>>
    IN  [obj |-> obj2,
         out |-> IF obj.self.reverse THEN FlipAll(to_return) ELSE to_return,
         generated |-> IF miss THEN 1 ELSE 0]

RECURSIVE get_hsv_arrays(_, _, _)

\* ScrollingColorSource(source, ...) constructed at instant t; source is the
\* wrapped ColorSource object
ScrollingColorSource(source, speed, delay, pause, scroll_fraction, initial_roll_ratio, mirrored, resolution_multiplier, reverse, t) ==
    ColorSource_init(
        [kind |-> "ScrollingColorSource", scroll_speed |-> speed, delay |-> delay,
         pause |-> RMax(R(0), pause), scroll_fraction |-> scroll_fraction,
         initial_roll_ratio |-> RMod(initial_roll_ratio, R(1)),
         mirrored |-> mirrored,
         resolution_multiplier |-> Max(1, resolution_multiplier),
         reverse |-> reverse, _start_time |-> R(t)])
    @@ [source |-> source, _base_hues |-> EmptyDict, _base_sats |-> EmptyDict,
        _base_vals |-> EmptyDict]

\* a[1:-1]
Inner(a) == [i \in 1..Max(0, Len(a) - 2) |-> a[i + 1]]

\* a variant of the mirroring that repeats the last sample of the source
Mirror_repeating_last(a) == a \o Flip(Tail(a))

\* np.concatenate((a, np.flip(a[1:-1])))
Mirror(a) == a \o Flip(Inner(a))

\* ScrollingColorSource._generate_base_arrays(num_leds) at instant t
ScrollingColorSource_generate_base_arrays(obj, num_leds, t) ==
    LET cache_key == num_leds * obj.self.resolution_multiplier
        high_res_led_count == num_leds * obj.self.resolution_multiplier
    IN  IF cache_key \in DOMAIN obj._base_hues THEN obj
        ELSE CHOOSE out \in
            {LET mirrored == [c \in Channels |->
                                 IF obj.self.mirrored THEN Mirror(got.out[c])
                                 ELSE got.out[c]]
                 roll_amt == RInt(RMul(R(Len(mirrored[1])), obj.self.initial_roll_ratio))
                 rolled == [c \in Channels |->
                               IF roll_amt # 0 THEN Roll(mirrored[c], roll_amt)
                               ELSE mirrored[c]]
             IN  [obj EXCEPT !.source = got.obj,
                             !._base_hues = Put(obj._base_hues, cache_key, rolled[1]),
                             !._base_sats = Put(obj._base_sats, cache_key, rolled[2]),
                             !._base_vals = Put(obj._base_vals, cache_key, rolled[3])]
                : got \in {get_hsv_arrays(obj.source, high_res_led_count, t)}} : TRUE

\* a variant that does not hold the position during the pause
\* (dist_current = time_in_cycle * self.scroll_speed)
ScrollingColorSource_high_res_offset_unheld(self, num_leds, t) ==
    LET time_since_start == RMax(R(0), RSub(RSub(R(t), self._start_time), self.delay))
        total_offset_float ==
            IF self.scroll_fraction = None
            THEN RMul(time_since_start, self.scroll_speed)
            ELSE
            LET scroll_dist_per_seg == RMul(R(num_leds), self.scroll_fraction[1])
                \* None stands for float("inf")
                scroll_time_per_seg ==
                    IF RGt(self.scroll_speed, R(0))
                    THEN Some(RDiv(scroll_dist_per_seg, self.scroll_speed))
                    ELSE None
                cycle_duration ==
                    IF scroll_time_per_seg = None THEN None
                    ELSE Some(RAdd(scroll_time_per_seg[1], self.pause))
                cycling == cycle_duration # None /\ RGt(cycle_duration[1], R(0))
                num_completed ==
                    IF cycling THEN RInt(RDiv(time_since_start, cycle_duration[1])) ELSE 0
                time_in_cycle ==
                    IF cycling THEN RMod(time_since_start, cycle_duration[1])
                    ELSE time_since_start
                dist_past == RMul(R(num_completed), scroll_dist_per_seg)
                dist_current == RMul(time_in_cycle, self.scroll_speed)
            IN  RAdd(dist_past, dist_current)
    IN  RMul(total_offset_float, R(self.resolution_multiplier))

\* total_offset_float * resolution_multiplier of a call at instant t
ScrollingColorSource_high_res_offset(self, num_leds, t) ==
    LET time_since_start == RMax(R(0), RSub(RSub(R(t), self._start_time), self.delay))
        total_offset_float ==
            IF self.scroll_fraction = None
            THEN RMul(time_since_start, self.scroll_speed)
            ELSE
            LET scroll_dist_per_seg == RMul(R(num_leds), self.scroll_fraction[1])
                \* None stands for float("inf")
                scroll_time_per_seg ==
                    IF RGt(self.scroll_speed, R(0))
                    THEN Some(RDiv(scroll_dist_per_seg, self.scroll_speed))
                    ELSE None
                cycle_duration ==
                    IF scroll_time_per_seg = None THEN None
                    ELSE Some(RAdd(scroll_time_per_seg[1], self.pause))
                cycling == cycle_duration # None /\ RGt(cycle_duration[1], R(0))
                num_completed ==
                    IF cycling THEN RInt(RDiv(time_since_start, cycle_duration[1])) ELSE 0
                time_in_cycle ==
                    IF cycling THEN RMod(time_since_start, cycle_duration[1])
                    ELSE time_since_start
                dist_past == RMul(R(num_completed), scroll_dist_per_seg)
                dist_current ==
                    IF scroll_time_per_seg = None
                       \/ RLt(time_in_cycle, scroll_time_per_seg[1])
                    THEN RMul(time_in_cycle, self.scroll_speed)
                    ELSE scroll_dist_per_seg
            IN  RAdd(dist_past, dist_current)
    IN  RMul(total_offset_float, R(self.resolution_multiplier))

\* a variant without the final slice to n samples: a[::step]
Decimate_unsliced(a, step, n) ==
    [i \in 1..((Len(a) + step - 1) \div step) |-> a[(i - 1) * step + 1]]

\* a[::step][:n]
Decimate(a, step, n) ==
    [i \in 1..Min(n, (Len(a) + step - 1) \div step) |-> a[(i - 1) * step + 1]]

\* ScrollingColorSource.get_hsv_arrays(num_leds) at instant t
ScrollingColorSource_get_hsv_arrays(obj, num_leds, t) ==
    IF num_leds <= 0
    THEN [obj |-> obj, out |-> [c \in Channels |-> <<>>], generated |-> 0]
    ELSE CHOOSE res \in
        {LET cache_key == num_leds * obj2.self.resolution_multiplier
             base == <<obj2._base_hues[cache_key], obj2._base_sats[cache_key],
                       obj2._base_vals[cache_key]>>
             high_res_offset == ScrollingColorSource_high_res_offset(obj2.self, num_leds, t)
             final == [c \in Channels |->
                          Decimate(Roll(base[c], -RInt(high_res_offset)),
                                   obj2.self.resolution_multiplier, num_leds)]
         IN  [obj |-> obj2,
              out |-> IF obj2.self.reverse THEN FlipAll(final) ELSE final,
              generated |-> 0]
            : obj2 \in {ScrollingColorSource_generate_base_arrays(obj, num_leds, t)}} : TRUE

\* the floor of ColorShift's cycle, max(0.1, cycle_duration)
MinShiftCycle == Rat(1, 10)

\* ColorShift._unwrap_hues: the loop from index i (1-based) on
RECURSIVE unwrap_hues(_, _)
unwrap_hues(unwrapped, i) ==
    IF i > Len(unwrapped) THEN unwrapped
    ELSE LET diff == RSub(unwrapped[i], unwrapped[i - 1])
             shift == IF RGt(diff, Rat(1, 2)) THEN R(-1)
                      ELSE IF RLt(diff, Rat(-1, 2)) THEN R(1)
                      ELSE R(0)
         IN  unwrap_hues([j \in 1..Len(unwrapped) |->
                             IF j >= i THEN RAdd(unwrapped[j], shift)
                             ELSE unwrapped[j]],
                         i + 1)

\* ColorShift(gradient_source, ...) constructed at instant t; gradient_source is a
\* MultiGradient with at least one stop (ValueError otherwise)
ColorShift(gradient_source, cycle_duration, delay, reverse, t) ==
    LET sorted_stops == SortedStops(gradient_source.stops)
    IN  ColorSource_init(
            [kind |-> "ColorShift",
             cycle_duration |-> RMax(MinShiftCycle, cycle_duration),
             delay |-> delay, reverse |-> reverse,
             positions |-> [i \in 1..Len(sorted_stops) |-> sorted_stops[i][2]],
             hues |-> unwrap_hues([i \in 1..Len(sorted_stops) |-> sorted_stops[i][1][1]], 2),
             sats |-> [i \in 1..Len(sorted_stops) |-> sorted_stops[i][1][2]],
             vals |-> [i \in 1..Len(sorted_stops) |-> sorted_stops[i][1][3]],
             _start_time |-> R(t)])

\* np.interp(x, xp, fp), xp increasing
Interp(x, xp, fp) ==
    IF RLt(x, xp[1]) THEN fp[1]
    ELSE IF RGe(x, xp[Len(xp)]) THEN fp[Len(fp)]
    ELSE LET j == CHOOSE j \in 1..(Len(xp) - 1) :
                      /\ RLe(xp[j], x)
                      /\ RLt(x, xp[j + 1])
             slope == RDiv(RSub(fp[j + 1], fp[j]), RSub(xp[j + 1], xp[j]))
         IN  RAdd(RMul(slope, RSub(x, xp[j])), fp[j])

\* ColorShift.get_hsv_arrays(num_leds) at instant t
ColorShift_get_hsv_arrays(obj, num_leds, t) ==
    LET self == obj.self
        time_since_start == RMax(R(0), RSub(RSub(R(t), self._start_time), self.delay))
        progress == RMod(RDiv(time_since_start, self.cycle_duration), R(1))
        current_hue == RMod(Interp(progress, self.positions, self.hues), R(1))
        current_sat == Interp(progress, self.positions, self.sats)
        current_val == Interp(progress, self.positions, self.vals)
    IN  [obj |-> obj,
         out |-> <<Fill(num_leds, current_hue), Fill(num_leds, current_sat),
                   Fill(num_leds, current_val)>>,
         generated |-> 0]

\* source.get_hsv_arrays(num_leds) at instant t, on an object of any class
get_hsv_arrays(obj, num_leds, t) ==
    CASE obj.self.kind = "ScrollingColorSource" ->
            ScrollingColorSource_get_hsv_arrays(obj, num_leds, t)
      [] obj.self.kind = "ColorShift" -> ColorShift_get_hsv_arrays(obj, num_leds, t)
      [] OTHER -> ColorSource_get_hsv_arrays(obj, num_leds)


(***************************************************************************)
(* One ColorSource driven on its own: constructed at instant 0, then asked *)
(* for its arrays at instants and for pixel counts of the caller's choice  *)
(***************************************************************************)
MaxPixels == 4
CsMaxTime == 3
PixelCounts == 1..MaxPixels

\* HSV tuples: three in range, one with every component out of range, one with hue 1.0
Orange == <<Rat(1, 20), R(1), R(1)>>
DimBlue == <<Rat(2, 3), Rat(1, 2), Rat(1, 4)>>
Pink == <<Rat(9, 10), Rat(1, 2), R(1)>>
OutOfRange == <<Rat(5, 4), Rat(3, 2), Rat(-1, 2)>>
RedAtOne == <<R(1), R(1), R(1)>>
Colors == {Orange, DimBlue, OutOfRange}

ThreeStops == <<<<DimBlue, Rat(3, 2)>>, <<Orange, Rat(-1, 4)>>, <<Pink, Rat(1, 2)>>>>

\* the constructor calls explored
StaticInputs ==
    {StaticColor(c, rev) : c \in Colors, rev \in BOOLEAN}
    \cup {Gradient(c0, c1, R(0), R(1), FALSE) : c0 \in Colors, c1 \in Colors}
    \cup {MultiGradient(<<<<c0, R(0)>>, <<c1, R(1)>>>>, FALSE) : c0 \in Colors, c1 \in Colors}
    \cup {StaticColor(RedAtOne, FALSE),
          Gradient(Orange, DimBlue, Rat(1, 4), Rat(3, 4), TRUE),
          Gradient(DimBlue, Orange, Rat(3, 2), R(-1), FALSE),
          Gradient(Orange, DimBlue, Rat(1, 2), Rat(1, 2), FALSE),
          MultiGradient(<<>>, FALSE),
          MultiGradient(<<<<DimBlue, Rat(1, 2)>>>>, TRUE),
          MultiGradient(ThreeStops, FALSE),
          MultiGradient(<<<<Orange, Rat(1, 2)>>, <<DimBlue, Rat(1, 2)>>>>, TRUE),
          MultiGradient(<<<<Orange, Rat(1, 3)>>, <<Pink, Rat(1, 3)>>,
                          <<DimBlue, Rat(2, 3)>>, <<Orange, Rat(2, 3)>>>>, FALSE)}

ScrollingInputs ==
    {ScrollingColorSource(ColorSource_init(Gradient(Orange, DimBlue, R(0), R(1), FALSE)),
                          R(1), R(0), R(0), None, R(0), TRUE, 2, FALSE, 0),
     ScrollingColorSource(ColorSource_init(MultiGradient(ThreeStops, FALSE)),
                          R(3), R(0), R(0), None, R(0), TRUE, 1, TRUE, 0),
     ScrollingColorSource(ColorSource_init(MultiGradient(ThreeStops, TRUE)),
                          R(1), R(1), R(1), Some(Rat(1, 2)), Rat(5, 4), FALSE, 1, TRUE, 0),
     ScrollingColorSource(ColorSource_init(StaticColor(DimBlue, FALSE)),
                          R(0), R(0), R(-1), Some(R(1)), R(0), TRUE, 3, FALSE, 0),
     ScrollingColorSource(ColorSource_init(Gradient(Orange, Pink, R(0), R(1), FALSE)),
                          Rat(-3, 2), R(0), R(0), None, Rat(1, 2), TRUE, 0, FALSE, 0),
     ScrollingColorSource(ColorSource_init(Gradient(Orange, Pink, R(0), R(1), FALSE)),
                          R(2), R(0), R(1), Some(R(0)), R(0), FALSE, 2, FALSE, 0),
     ScrollingColorSource(ColorSource_init(Gradient(Orange, Pink, R(0), R(1), FALSE)),
                          Rat(3, 2), R(0), Rat(1, 2), Some(Rat(3, 4)), R(0), TRUE, 2,
                          FALSE, 0)}

ShiftInputs ==
    {ColorShift(MultiGradient(<<<<Pink, R(0)>>, <<Orange, Rat(1, 2)>>,
                                <<DimBlue, R(1)>>>>, FALSE), R(4), R(1), FALSE, 0),
     ColorShift(MultiGradient(<<<<OutOfRange, Rat(1, 4)>>>>, FALSE), R(0), R(0), TRUE, 0),
     ColorShift(MultiGradient(<<<<Orange, Rat(1, 4)>>, <<OutOfRange, Rat(3, 4)>>>>, FALSE),
                R(2), R(0), FALSE, 0)}

CsInputs == {ColorSource_init(self) : self \in StaticInputs} \cup ScrollingInputs \cup ShiftInputs

\* bookkeeping of the get_hsv_arrays calls made on the source: the pixel count, the
\* instant and the result of the latest call, and whether that pixel count was in
\* the cache before it; per pixel count, the result of the first call that
\* generated its arrays and the number of _generate_arrays calls made so far
NoCsCalls == [n |-> 0, t |-> 0, out |-> <<>>, again |-> FALSE, first |-> EmptyDict,
              generated |-> [k \in PixelCounts |-> 0]]

InitCs ==
    /\ now = 0
    /\ cs \in CsInputs
    /\ cs_calls = NoCsCalls
    /\ conn = NoConn
    /\ app = NoApp
    /\ fx = [e \in EffectIds |-> NoEffect]
    /\ calls = NoCalls
    /\ StageManager_init
    /\ hw = [d \in AllDevices |-> None]
    /\ trace = <<>>

CsTick ==
    /\ now < CsMaxTime
    /\ now' = now + 1
    /\ UNCHANGED <<fx, calls, effects_map, canvases, hw, trace, cs, cs_calls, conn, app>>

\* one call of cs.get_hsv_arrays(num_leds)
CsGet(num_leds) ==
    \E got \in {get_hsv_arrays(cs, num_leds, now)} :
        /\ cs' = got.obj
        /\ cs_calls' =
              [n |-> num_leds, t |-> now, out |-> got.out,
               again |-> num_leds \in DOMAIN cs._hues,
               first |-> IF got.generated = 0 \/ num_leds \in DOMAIN cs_calls.first
                         THEN cs_calls.first
                         ELSE Put(cs_calls.first, num_leds, got.out),
               generated |-> [cs_calls.generated EXCEPT ![num_leds] = @ + got.generated]]
        /\ UNCHANGED <<now, fx, calls, effects_map, canvases, hw, trace, conn, app>>

NextCs ==
    \/ CsTick
    \/ \E num_leds \in PixelCounts : CsGet(num_leds)

SpecCs == InitCs /\ [][NextCs]_vars


(***************************************************************************)
(* Properties of the StageManager, under Spec                              *)
(***************************************************************************)
\* the step is an update(): its trace starts with the reset of the first canvas
IsUpdateTrace(tr) == tr # <<>> /\ tr[1][1] = "reset"

\* the effects whose frames an update() with trace tr painted on device d, in order
RenderedOn(tr, d) ==
    LET idx == SelectSeq([i \in 1..Len(tr) |-> i],
                         LAMBDA i : /\ tr[i][1] = "calculate_frame"
                                    /\ i < Len(tr)
                                    /\ tr[i + 1][1] = "paint"
                                    /\ tr[i + 1][2] = d)
    IN  [k \in 1..Len(idx) |-> tr[idx[k]][2]]

\* what the calculate_frame() calls on the entries of the list listed return, one
\* after the other at instant t (an object listed twice is called twice): for
\* every entry the object after the call and the frame
RECURSIVE CallResults(_, _, _, _)
CallResults(f, listed, t, rnd) ==
    IF listed = <<>> THEN <<>>
    ELSE LET id == Head(listed)
         IN  CHOOSE out \in
                 {<<r>> \o CallResults([f EXCEPT ![id] = r.effect], Tail(listed), t, rnd) :
                  r \in {calculate_frame(f[id], t, rnd)}} : TRUE

\* the indices, in the trace tr, of the calculate_frame() calls painted on device d
CallsOn(tr, d) ==
    SelectSeq([i \in 1..Len(tr) |-> i],
              LAMBDA i : /\ tr[i][1] = "calculate_frame"
                         /\ i < Len(tr)
                         /\ tr[i + 1][1] = "paint"
                         /\ tr[i + 1][2] = d)

\* C1: within one update(), every calculate_frame() call and every canvas write
\* comes before the first push to a device; each managed device is then pushed
\* exactly once, with its final canvas.
C1_ComputeThenPush ==
    /\ \A i, j \in 1..Len(trace) :
          (trace[i][1] = "show" /\ trace[j][1] \in {"reset", "calculate_frame", "paint"})
              => j < i
    /\ IsUpdateTrace(trace) =>
          \A d \in Devices :
              /\ Cardinality({i \in 1..Len(trace) : trace[i] = <<"show", d>>}) = 1
              /\ hw[d] = Some(canvases[d])

\* C1 witness: an update() has painted frames on both devices and pushed them
C1_Witness ==
    /\ IsUpdateTrace(trace)
    /\ RenderedOn(trace, "d1") # <<>>
    /\ RenderedOn(trace, "d2") # <<>>
    /\ \E i \in 1..Len(trace) : trace[i] = <<"show", "d2">>

\* C2: when an update() renders two or more effects of one device, the canvas of
\* the device is, pixel for pixel, the frame of the effect added last.
C2_LaterEffectOverwrites ==
    [][IsUpdateTrace(trace') =>
          \A d \in Devices :
              Len(effects_map[d]) >= 2 =>
                  \E rnd \in UpdateRandoms :
                      canvases'[d] =
                          CallResults(fx, effects_map[d], now,
                                      rnd)[Len(effects_map[d])].frame]_vars

\* C2 witness: a red and then a green effect on d1 were both rendered by the
\* update() just made, and the canvas is green
C2_Witness ==
    /\ IsUpdateTrace(trace)
    /\ Len(RenderedOn(trace, "d1")) = 2
    /\ effects_map["d1"] = RenderedOn(trace, "d1")
    /\ fx[effects_map["d1"][1]].color_source = Red
    /\ fx[effects_map["d1"][2]].color_source = Green
    /\ canvases["d1"] = Fill(NumLeds("d1"), RGBColor(0, 255, 0))

\* C3: update() renders exactly the effects of each list, paints each frame before
\* it asks is_finished(), and keeps exactly the effects that are not finished
\* after their frame of this tick: the frame on which an effect finishes is painted,
\* and an effect that has left the list is not rendered.
C3_RemovedIffFinished ==
    [][IsUpdateTrace(trace') =>
          \E rnd \in UpdateRandoms :
              \A d \in Devices :
                  LET listed == effects_map[d]
                      results == CallResults(fx, listed, now, rnd)
                      \* is_finished() of entry k after its frame of this tick
                      finished == [k \in 1..Len(listed) |->
                                      is_finished(results[k].effect)]
                      kept == SelectSeq([k \in 1..Len(listed) |-> k],
                                        LAMBDA k : ~finished[k])
                      made == CallsOn(trace', d)
                  IN  /\ RenderedOn(trace', d) = listed
                      /\ effects_map'[d] = [j \in 1..Len(kept) |-> listed[kept[j]]]
                      /\ listed # <<>> =>
                             canvases'[d] = results[Len(listed)].frame
                      /\ \A k \in 1..Len(made) :
                             trace'[made[k] + 2] = <<"is_finished", listed[k], finished[k]>>
                      /\ \A i \in 1..Len(trace') :
                             trace'[i][1] = "calculate_frame" =>
                                 trace'[i + 1][1] = "paint"]_vars

\* C3 witness: the update() just made rendered an effect of d1 that finished on
\* this frame: the frame is on the canvas and the effect is off the list
C3_Witness ==
    /\ IsUpdateTrace(trace)
    /\ \E i \in 1..Len(trace) :
          /\ trace[i][1] = "is_finished" /\ trace[i][3]
          /\ trace[i - 1][1] = "paint"
          /\ trace[i - 1][2] = "d1"
          /\ \A k \in 1..Len(effects_map["d1"]) : effects_map["d1"][k] # trace[i][2]
    /\ RenderedOn(trace, "d1") # <<>>
    /\ effects_map["d1"] = <<>>
    /\ canvases["d1"] = Fill(NumLeds("d1"), RGBColor(0, 255, 0))

\* C5: add_effect with an effect of a device the manager does not manage changes
\* no effect list, no canvas and no effect object (it prints a warning); no list
\* ever holds an effect of another device and nothing is ever rendered or pushed
\* for an unmanaged device.
C5_UnmanagedDeviceIgnored ==
    /\ [](/\ DOMAIN effects_map = Devices
          /\ DOMAIN canvases = Devices
          /\ \A d \in Devices : \A i \in 1..Len(effects_map[d]) :
                 fx[effects_map[d][i]].rgb_container = d
          /\ \A d \in AllDevices \ Devices : hw[d] = None
          /\ \A i \in 1..Len(trace) :
                 trace[i][1] \in {"reset", "paint", "show"} => trace[i][2] \in Devices)
    /\ [][(trace' # <<>> /\ trace'[1][1] = "print") =>
             /\ effects_map' = effects_map
             /\ canvases' = canvases
             /\ fx' = fx
             /\ hw' = hw]_vars

\* C5 witness: add_effect has just refused an effect of the unmanaged device d3
\* while d1 holds an effect and has been painted
C5_Witness ==
    /\ trace = << <<"print", "Warning", "d3">> >>
    /\ effects_map["d1"] # <<>>
    /\ canvases["d1"] # Fill(NumLeds("d1"), Black)

\* C6: the canvas of every managed device has as many entries as the device has
\* pixels, and so has what is pushed; blending a frame of any length onto the
\* canvas keeps the length of the canvas, a longer frame being cut at its end.
C6_CanvasLength ==
    \A d \in Devices :
        /\ Len(canvases[d]) = NumLeds(d)
        /\ hw[d] # None => Len(hw[d][1]) = NumLeds(d)
        /\ \A n \in 0..(NumLeds(d) + 1) :
               LET effect_frame == Fill(n, RGBColor(1, 1, 1))
                   blended == Blend(canvases[d], effect_frame)
               IN  /\ Len(blended) = NumLeds(d)
                   /\ \A i \in 1..NumLeds(d) :
                          blended[i] = IF i <= n THEN effect_frame[i] ELSE canvases[d][i]

\* C6 witness: d2 has been painted by an update(), and its list then cleared
C6_Witness ==
    /\ trace = <<>>
    /\ effects_map["d2"] = <<>>
    /\ hw["d2"] # None
    /\ canvases["d2"] # Fill(NumLeds("d2"), Black)
    /\ Len(canvases["d2"]) = 3


(***************************************************************************)
(* Properties of the effects, under SpecFx                                 *)
(***************************************************************************)
\* the arguments of the constructor call of the effect under test, and the time
\* from its construction to the latest call of _update_brightness
Args == calls.args
ElapsedAtLast == R(calls.last[1] - calls.constructed[1])
IsBlank(e) == \A i \in 1..e.num_leds : e.brightness_array[i] = R(0)

\* C4: once is_finished() is true it stays true, whatever calls follow and
\* whenever they are made, for each of the nine effects.
C4_FinishedIsMonotonic ==
    [][is_finished(fx[1]) => is_finished(fx'[1])]_vars

\* C4 witness: a Chase that was finished already has been updated again
C4_Witness ==
    /\ Fx.kind = "Chase"
    /\ calls.was_finished
    /\ is_finished(Fx)
    /\ calls.last[1] > calls.constructed[1] + 3

\* C7: a Chase without duration and without loop_interval is finished after any
\* update made when (elapsed - delay) * speed >= num_leds + width.
C7_ChaseFinishesAfterOneRun ==
    (/\ Fx.kind = "Chase"
     /\ Args.duration = None
     /\ RLe(Args.loop_interval, R(0))
     /\ calls.last # None
     /\ RGe(RMul(RSub(ElapsedAtLast, Args.delay), Args.options.speed),
            R(Fx.num_leds + Fx.width)))
        => is_finished(Fx)

\* C8: for a Chase with loop_interval > 0 and no duration, every update is of one
\* of three kinds.  Before the scheduled start of the run it renders all pixels 0
\* and leaves the schedule.  When it finds the run complete (head_position - width
\* >= num_leds) it renders all pixels 0 and schedules the next run loop_interval
\* after this update.  Otherwise it renders the comet with its head at
\* (now - scheduled start) * speed, so a run starts from head position 0, and no
\* pixel at or ahead of the head is lit.  The effect never reports finished.
C8_ChaseLoops ==
    [][(/\ now' = now
        /\ Fx.kind = "Chase"
        /\ Args.duration = None
        /\ RGt(Args.loop_interval, R(0))) =>
          LET scheduled == IF Fx._loop_start_time = None
                           THEN RAdd(R(calls.constructed[1]), Args.delay)
                           ELSE Fx._loop_start_time[1]
              head == RMul(RSub(R(now), scheduled), Args.options.speed)
              complete == RGe(RSub(head, R(Fx.width)), R(Fx.num_leds))
              post == fx'[1]
          IN  /\ ~is_finished(post)
              /\ RLt(R(now), scheduled) =>
                     /\ IsBlank(post)
                     /\ post._loop_start_time = Some(scheduled)
              /\ (RGe(R(now), scheduled) /\ complete) =>
                     /\ IsBlank(post)
                     /\ post._loop_start_time = Some(RAdd(R(now), Args.loop_interval))
              /\ (RGe(R(now), scheduled) /\ ~complete) =>
                     /\ post._loop_start_time = Some(scheduled)
                     /\ post.brightness_array = Chase_render(Fx, head)
                     /\ \A i \in 1..Fx.num_leds :
                            RGe(R(i - 1), head) => post.brightness_array[i] = R(0)]_vars

\* C8 witness: a looping Chase is in a later run: its run was rescheduled and the
\* comet is on the strip again
C8_Witness ==
    /\ Fx.kind = "Chase"
    /\ Args.duration = None
    /\ RGt(Args.loop_interval, R(0))
    /\ Fx._loop_start_time # None
    /\ RGt(Fx._loop_start_time[1], RAdd(R(calls.constructed[1]), Args.delay))
    /\ ~IsBlank(Fx)

LiquidFillPosition == RMul(ElapsedAtLast, Fx.options.speed)

FadeEnd == RAdd(Fx.delay, Fx.duration)
FadeRamp ==
    LET x == RDiv(RSub(ElapsedAtLast, Fx.delay), Fx.duration)
    IN  IF Args.kind = "FadeToBlack" THEN RSub(R(1), x) ELSE x
FadeTerminal == IF Args.kind = "FadeToBlack" THEN R(0) ELSE R(1)

C12_FadesFinishAtBoundary ==
    (Args.kind \in {"FadeToBlack", "FadeIn"} /\ calls.last # None) =>
        /\ Fx.delay = RMax(R(0), Args.delay)
        /\ Fx.duration = RMax(MinFadeDuration, Args.duration)
        /\ IF RLt(ElapsedAtLast, FadeEnd)
           THEN /\ ~is_finished(Fx)
                /\ RGe(ElapsedAtLast, Fx.delay) =>
                       Fx.brightness_array = Fill(Fx.num_leds, FadeRamp)
           ELSE /\ is_finished(Fx)
                /\ Fx.brightness_array = Fill(Fx.num_leds, FadeTerminal)

\* the update exactly at the boundary is the one that finishes a FadeToBlack
C12_Witness ==
    /\ Args.kind = "FadeToBlack"
    /\ calls.last # None
    /\ ElapsedAtLast = FadeEnd
    /\ ~calls.was_finished
    /\ is_finished(Fx)

(***************************************************************************)
(* C13: after every update of a Breathing, the effect is finished exactly  *)
(* when it has a duration and the time elapsed since its construction has  *)
(* reached it, in whatever phase of the wave or of the initial delay the   *)
(* update falls; a Breathing without duration is never finished.           *)
(***************************************************************************)
C13_BreathingDuration ==
    (Args.kind = "Breathing" /\ calls.last # None) =>
        (is_finished(Fx) <=>
            (Args.duration # None /\ RGe(ElapsedAtLast, Args.duration[1])))

\* a Breathing that finishes while still in its initial delay
C13_Witness ==
    /\ Args.kind = "Breathing"
    /\ calls.last # None
    /\ RLt(ElapsedAtLast, Args.delay)
    /\ ~calls.was_finished
    /\ is_finished(Fx)

(***************************************************************************)
(* C14: a ChaseRamp goes through its phases in order only, accelerating,   *)
(* finishing, finished. current_speed never decreases and never exceeds    *)
(* max_speed; the finishing phase is entered on the update where the speed *)
(* first reaches max_speed and is never left; the effect becomes finished, *)
(* with every pixel 1, on the first update at least flicker_duration after *)
(* the finishing phase began, and is never finished without having been in *)
(* the finishing phase.                                                    *)
(***************************************************************************)
ChaseRampPhaseState ==
    /\ RLe(Fx.current_speed, Fx.max_speed)
    /\ is_finished(Fx) =>
           (Fx._is_finishing /\ Fx.brightness_array = Fill(Fx.num_leds, R(1)))

ChaseRampPhaseStep ==
    LET e == fx[1]
        e2 == fx'[1]
        due == /\ e._is_finishing
               /\ RGe(RSub(R(now), e._finish_start_time[1]), e.flicker_duration)
    IN  /\ RGe(e2.current_speed, e.current_speed)
        /\ e._is_finishing => e2._is_finishing
        /\ (~e._is_finishing /\ e2._is_finishing) <=>
               (RLt(e.current_speed, e.max_speed) /\ e2.current_speed = e.max_speed)
        /\ (~e._is_finishing /\ e2._is_finishing) =>
               e2._finish_start_time = Some(R(now))
        /\ is_finished(e2) <=> (is_finished(e) \/ due)

C14_ChaseRampPhases ==
    /\ [](Args.kind = "ChaseRamp" => ChaseRampPhaseState)
    /\ [][(Args.kind = "ChaseRamp" /\ fx' # fx) => ChaseRampPhaseStep]_vars

\* the same property restricted to the ChaseRamps constructed with
\* initial_speed < max_speed and acceleration >= 0, which holds
ChaseRampPhasesWhenRamping ==
    /\ []((Args.kind = "ChaseRamp" /\ RLt(Args.initial_speed, Args.max_speed)
              /\ RGe(Args.acceleration, R(0))) => ChaseRampPhaseState)
    /\ [][(Args.kind = "ChaseRamp" /\ RLt(Args.initial_speed, Args.max_speed)
              /\ RGe(Args.acceleration, R(0)) /\ fx' # fx) => ChaseRampPhaseStep]_vars

(***************************************************************************)
(* Claims about the color sources, under SpecCs                            *)
(***************************************************************************)
IsSource == "self" \in DOMAIN cs
IsStaticSource ==
    IsSource /\ cs.self.kind \in {"StaticColor", "Gradient", "MultiGradient"}

(***************************************************************************)
(* C15: for a static ColorSource (StaticColor, Gradient, MultiGradient)    *)
(* every get_hsv_arrays call for a pixel count returns the hue, saturation *)
(* and value arrays that the first call for that pixel count returned; the *)
(* arrays of a pixel count are generated at most once per instance; and no *)
(* call changes or removes an entry that is in the cache, whatever pixel   *)
(* count it asks for.                                                      *)
(***************************************************************************)
CacheKept(before, after) ==
    \A k \in DOMAIN before : k \in DOMAIN after /\ after[k] = before[k]

C15_StaticSourcesCached ==
    /\ [](IsStaticSource =>
            /\ cs_calls.n # 0 => cs_calls.out = cs_calls.first[cs_calls.n]
            /\ \A k \in PixelCounts : cs_calls.generated[k] <= 1
            /\ \A k \in PixelCounts :
                  cs_calls.generated[k] = 1 <=> k \in DOMAIN cs._hues)
    /\ [][IsStaticSource =>
            /\ CacheKept(cs._hues, cs'._hues)
            /\ CacheKept(cs._sats, cs'._sats)
            /\ CacheKept(cs._vals, cs'._vals)]_vars

\* a gradient asked again for a pixel count, after calls for two other pixel counts
C15_Witness ==
    /\ IsStaticSource
    /\ cs.self.kind = "Gradient"
    /\ cs_calls.again
    /\ Cardinality(DOMAIN cs._hues) >= 3
    /\ cs_calls.out[1] # cs_calls.out[3]

(***************************************************************************)
(* C16: for every pixel count n >= 2 and every pair of HSV colors c0, c1,  *)
(* MultiGradient([(c0, 0.0), (c1, 1.0)]) and Gradient(c0, c1) return the   *)
(* same hue, saturation and value at every pixel index.                    *)
(***************************************************************************)
TwoStops(c0, c1) == MultiGradient(<<<<c0, R(0)>>, <<c1, R(1)>>>>, FALSE)
IsDefaultGradient ==
    /\ IsSource
    /\ cs.self.kind = "Gradient"
    /\ cs.self.start_pos = R(0) /\ cs.self.end_pos = R(1) /\ ~cs.self.reverse
IsTwoStops ==
    /\ IsSource
    /\ cs.self.kind = "MultiGradient"
    /\ ~cs.self.reverse
    /\ Len(cs.self.stops) = 2
    /\ cs.self.stops[1][2] = R(0) /\ cs.self.stops[2][2] = R(1)

C16_TwoStopsIsGradient ==
    /\ (IsDefaultGradient /\ cs_calls.n >= 2) =>
          cs_calls.out =
              get_hsv_arrays(ColorSource_init(TwoStops(cs.self.start_hsv, cs.self.end_hsv)),
                             cs_calls.n, cs_calls.t).out
    /\ (IsTwoStops /\ cs_calls.n >= 2) =>
          cs_calls.out =
              get_hsv_arrays(ColorSource_init(Gradient(cs.self.stops[1][1], cs.self.stops[2][1],
                                                       R(0), R(1), FALSE)),
                             cs_calls.n, cs_calls.t).out

\* a two-stop MultiGradient between two different colors, asked for 3 pixels or more
C16_Witness ==
    /\ IsTwoStops
    /\ cs.self.stops[1][1] # cs.self.stops[2][1]
    /\ cs_calls.n >= 3
    /\ cs_calls.out[1][1] # cs_calls.out[1][2]

(***************************************************************************)
(* C17: for every ColorSource variant, every pixel count and every HSV     *)
(* tuple passed at construction, each returned hue is in [0,1) and each    *)
(* returned saturation and value is in [0,1].                              *)
(***************************************************************************)
InUnit(x) == RGe(x, R(0)) /\ RLe(x, R(1))

C17_ChannelsInRange ==
    (IsSource /\ cs_calls.n # 0) =>
        \A i \in 1..cs_calls.n :
            /\ InUnit(cs_calls.out[1][i]) /\ cs_calls.out[1][i] # R(1)
            /\ InUnit(cs_calls.out[2][i])
            /\ InUnit(cs_calls.out[3][i])

(***************************************************************************)
(* C18: for every ColorSource variant (StaticColor, Gradient,              *)
(* MultiGradient with any number of stops at any positions,                *)
(* ScrollingColorSource mirrored or not with any resolution_multiplier     *)
(* >= 1, ColorShift) and every pixel count n >= 1, get_hsv_arrays(n)       *)
(* returns three arrays, each of length exactly n.                         *)
(***************************************************************************)
C18_ArraysHaveLengthN ==
    (IsSource /\ cs_calls.n # 0) =>
        /\ DOMAIN cs_calls.out = Channels
        /\ \A c \in Channels : Len(cs_calls.out[c]) = cs_calls.n

\* a mirrored ScrollingColorSource, whose base pattern is longer than
\* n * resolution_multiplier, asked for 3 pixels or more
C18_Witness ==
    /\ IsSource
    /\ cs.self.kind = "ScrollingColorSource"
    /\ cs.self.mirrored
    /\ cs_calls.n >= 3
    /\ Len(cs._base_hues[cs_calls.n * cs.self.resolution_multiplier])
          > cs_calls.n * cs.self.resolution_multiplier

(***************************************************************************)
(* C19: for a ScrollingColorSource with mirrored = true and no initial     *)
(* roll, the high-resolution base pattern is the wrapped source's samples  *)
(* followed by their reverse without the first and the last sample, so the *)
(* sample at its midpoint is the wrapped source's last sample; and a call  *)
(* whose scroll offset equals the length of the base pattern returns       *)
(* exactly what a call at offset 0 returns.                                *)
(***************************************************************************)
IsMirroredScroll ==
    /\ IsSource
    /\ cs.self.kind = "ScrollingColorSource"
    /\ cs.self.mirrored
    /\ cs.self.initial_roll_ratio = R(0)
    /\ cs_calls.n # 0

HighRes == cs_calls.n * cs.self.resolution_multiplier
BasePattern == <<cs._base_hues[HighRes], cs._base_sats[HighRes], cs._base_vals[HighRes]>>
WrappedSamples == get_hsv_arrays(cs.source, HighRes, cs_calls.t).out
ScrollOffset ==
    RInt(ScrollingColorSource_high_res_offset(cs.self, cs_calls.n, cs_calls.t))
AtOffsetZero == get_hsv_arrays(cs, cs_calls.n, RInt(cs.self._start_time)).out

C19_MirroredScroll ==
    IsMirroredScroll =>
        /\ \A c \in Channels :
              /\ Len(BasePattern[c]) = HighRes + Max(0, HighRes - 2)
              /\ \A i \in 1..HighRes : BasePattern[c][i] = WrappedSamples[c][i]
              /\ \A j \in 1..(HighRes - 2) :
                    BasePattern[c][HighRes + j] = WrappedSamples[c][HighRes - j]
              /\ BasePattern[c][(Len(BasePattern[c]) \div 2) + 1] = WrappedSamples[c][HighRes]
        /\ ScrollOffset \in {Len(BasePattern[1]),
                             Len(BasePattern[1]) * cs.self.resolution_multiplier} =>
              cs_calls.out = AtOffsetZero

\* a call made one full cycle of a non-uniform base pattern after the start
C19_Witness ==
    /\ IsMirroredScroll
    /\ cs_calls.n >= 2
    /\ cs_calls.t > 0
    /\ ScrollOffset = Len(BasePattern[1])
    /\ BasePattern[1][1] # BasePattern[1][2]
    /\ cs_calls.out = AtOffsetZero

(***************************************************************************)
(* C20: calculate_frame() multiplies the effect's brightness by the value  *)
(* channel of its ColorSource before the gamma and the HSV->RGB            *)
(* conversion: a pixel whose source value is 0 is output as black whatever *)
(* the effect's brightness, and a pixel whose source value is v < 1 is     *)
(* never brighter, in any of its three color components, than the same     *)
(* pixel with the source value 1. Stated under SpecFx, of the frame that   *)
(* calculate_frame() returns after the update just made, for every dither  *)
(* sample.                                                                 *)
(***************************************************************************)
SourceValue == Fx.color_source.hsv[3]
AtFullValue ==
    [Fx EXCEPT !.color_source =
        StaticColor(<<Fx.color_source.hsv[1], Fx.color_source.hsv[2], R(1)>>,
                    Fx.color_source.reverse)]

C20_FrameTimesSourceValue ==
    calls.last # None =>
        \A u \in DitherLevels :
            LET frame == FrameOf(Fx, DitherOf(Fx, u))
                full == FrameOf(AtFullValue, DitherOf(Fx, u))
            IN  \A i \in 1..Fx.num_leds :
                    /\ SourceValue = R(0) => frame[i] = Black
                    /\ \A c \in 1..3 : frame[i][c] <= full[i][c]

(***************************************************************************)
(* C21: at steady state calculate_frame() of any concrete effect bound to  *)
(* any ColorSource variant returns a frame of num_leds colors and never    *)
(* raises, so that StageManager.update() never raises because of an effect *)
(* or a color source. Stated under SpecFx of the call of calculate_frame() *)
(* that the update just made: the method it calls on its color source is   *)
(* one the color source has, and the frame has num_leds colors.            *)
(***************************************************************************)
\* the methods that the classes of color_source.py define
ColorSourceMethods ==
    {"__init__", "_generate_arrays", "get_hsv_arrays", "_generate_base_arrays",
     "reset", "_unwrap_hues"}

\* the method of its color source that Effect.calculate_frame() calls:
\* hues, sats = self.color_source.get_hs_arrays(self.num_leds)
FrameSourceCall == "get_hs_arrays"

\* the attribute lookup of that call succeeds (it raises AttributeError otherwise)
calculate_frame_returns == FrameSourceCall \in ColorSourceMethods

C21_CalculateFrameNeverRaises ==
    calls.last # None =>
        /\ calculate_frame_returns
        /\ \A u \in DitherLevels : Len(FrameOf(Fx, DitherOf(Fx, u))) = Fx.num_leds

(***************************************************************************)
(* C22: clear_effects(d) empties exactly the effect list of device d and   *)
(* leaves the effect list of every other device, every canvas and the set  *)
(* of managed devices unchanged; clear_effects on an unmanaged device      *)
(* changes nothing; clear_all_effects leaves every managed device with an  *)
(* empty effect list. Stated under Spec of every step made by one of the   *)
(* two calls.                                                              *)
(***************************************************************************)
C22_ClearEffects ==
    [][/\ \A d \in AllDevices :
             clear_effects(d) =>
                 /\ DOMAIN effects_map' = DOMAIN effects_map
                 /\ \A o \in DOMAIN effects_map :
                        effects_map'[o] = IF o = d THEN <<>> ELSE effects_map[o]
                 /\ canvases' = canvases
                 /\ hw' = hw
                 /\ d \notin DOMAIN effects_map =>
                        /\ effects_map' = effects_map
                        /\ fx' = fx
                        /\ now' = now
       /\ clear_all_effects =>
             /\ DOMAIN effects_map' = DOMAIN effects_map
             /\ \A d \in DOMAIN effects_map : effects_map'[d] = <<>>
             /\ canvases' = canvases]_vars

\* C22 witness: clear_effects(d1) has emptied the list of d1 after an update()
\* painted d1 with the red effect that never finishes, and the effect of d2 that
\* this update() rendered is still in its list
C22_Witness ==
    /\ effects_map["d1"] = <<>>
    /\ canvases["d1"] = Fill(NumLeds("d1"), RGBColor(255, 0, 0))
    /\ effects_map["d2"] # <<>>
    /\ fx[effects_map["d2"][1]]._last_update_time = R(now)
    /\ fx[effects_map["d2"][1]].start_time # R(now)

(***************************************************************************)
(* C29: after update() returns, no effect remaining in the list of any     *)
(* device (as returned by get_active_effects) reports is_finished() ==     *)
(* true, for any sequence of add_effect, update and clear operations,      *)
(* including when the same effect instance has been added more than once.  *)
(* Stated under Spec of the state that an update() leaves.                 *)
(***************************************************************************)
\* StageManager.get_active_effects(device): self._effects_map.get(device, [])
get_active_effects(device) ==
    IF device \in DOMAIN effects_map THEN effects_map[device] ELSE <<>>

C29_NoFinishedEffectListed ==
    IsUpdateTrace(trace) =>
        \A d \in AllDevices :
            \A i \in 1..Len(get_active_effects(d)) :
                ~is_finished(fx[get_active_effects(d)[i]])

(***************************************************************************)
(* C23: a Chase renders every pixel 0 on every update before its delay has *)
(* elapsed and on the update at elapsed = 0 with delay = 0; once           *)
(* (elapsed - delay) * speed >= 1 during a run, pixel 0 has nonzero        *)
(* brightness. Stated under SpecFx of the latest update of a Chase.        *)
(***************************************************************************)
\* (elapsed - delay) * speed at the latest update
ChaseTravel == RMul(RSub(ElapsedAtLast, Args.delay), Args.options.speed)

\* the latest update found the Chase in a run: started, not finished and with the
\* tail of the comet still on the strip
ChaseInRun ==
    /\ ~is_finished(Fx)
    /\ Fx._loop_start_time # None
    /\ RLe(Fx._loop_start_time[1], R(calls.last[1]))
    /\ RLt(RSub(RMul(RSub(R(calls.last[1]), Fx._loop_start_time[1]), Fx.options.speed),
                R(Fx.width)),
           R(Fx.num_leds))

\* the run is the first one: it started when the delay had elapsed
ChaseInFirstRun ==
    /\ ChaseInRun
    /\ Fx._loop_start_time = Some(RAdd(Fx.start_time, Fx.delay))

ChaseBlankUntilStart ==
    /\ RLt(ElapsedAtLast, Args.delay) => IsBlank(Fx)
    /\ (ElapsedAtLast = R(0) /\ Args.delay = R(0)) => IsBlank(Fx)

C24_FadesHoldDuringDelay ==
    (/\ Fx.kind \in {"FadeToBlack", "FadeIn"}
     /\ calls.last # None
     /\ RLt(ElapsedAtLast, Fx.delay))
        => /\ ~is_finished(Fx)
           /\ \A i \in 1..Fx.num_leds :
                  Fx.brightness_array[i] = IF Fx.kind = "FadeToBlack" THEN R(1) ELSE R(0)

(***************************************************************************)
(* C25: while a ChaseRamp is in its finishing phase and not yet finished,  *)
(* every pixel of its brightness array is fully lit (1.0), with dither     *)
(* noise as the only possible overlay. Stated under SpecFx of the latest   *)
(* update of a ChaseRamp.                                                  *)
(***************************************************************************)
\* the array a after the overlay of step 7 with the noise sample at level u
WithNoise(a, u) ==
    IF RGt(Fx.options.dither_strength, R(0))
    THEN [i \in 1..Fx.num_leds |-> RClip(RAdd(a[i], NoiseOf(Fx, u)[i]), R(0), R(1))]
    ELSE a

ChaseRampFinishing ==
    /\ Fx.kind = "ChaseRamp"
    /\ calls.last # None
    /\ Fx._is_finishing
    /\ ~is_finished(Fx)

C25_FinishingFullyLit ==
    ChaseRampFinishing =>
        \E u \in NoiseLevels :
            Fx.brightness_array = WithNoise(Fill(Fx.num_leds, R(1)), u)

\* the comet of width max_width with its bright end at int(head_position *
\* resolution_multiplier), wrapped around the strip: pixel i takes the brightest
\* of its resolution_multiplier samples
FinishingComet ==
    LET res == Fx.resolution_multiplier
        len == Fx.num_leds * res
        width == Fx.max_width * res
        shift == RInt(RMul(Fx.head_position, R(res)))
        sample(j) ==
            LET k == (j - shift) % len
            IN  IF k < Min(width, len) THEN Linspace10(width)[k + 1] ELSE R(0)
    IN  [i \in 1..Fx.num_leds |->
            RMaxOf([k \in 1..res |-> sample((i - 1) * res + (k - 1))])]

\* C25 as amended: while a ChaseRamp is in its finishing phase and not yet
\* finished its speed is max_speed and its brightness array is still the moving
\* comet, at its width max_width, with dither noise as the only overlay; every
\* pixel is 1.0 only on the update that finishes the effect.
C25_FinishingRendersComet ==
    /\ ChaseRampFinishing =>
          /\ Fx.current_speed = Fx.max_speed
          /\ \E u \in NoiseLevels : Fx.brightness_array = WithNoise(FinishingComet, u)
    /\ (Fx.kind = "ChaseRamp" /\ is_finished(Fx)) =>
          Fx.brightness_array = Fill(Fx.num_leds, R(1))

\* C25 witness: a ChaseRamp updated in its finishing phase, not finished, with a
\* pixel that is not fully lit
C25_Witness ==
    /\ ChaseRampFinishing
    /\ calls.last[1] > Fx._finish_start_time[1][1]
    /\ \E i \in 1..Fx.num_leds : RLt(Fx.brightness_array[i], R(1))

(***************************************************************************)
(* C26: the FlickerRamp timeline consists of 2 * num_stages contiguous     *)
(* segments starting at time 0 that strictly alternate ramp, pause, ramp,  *)
(* pause, ..., the ramp and the pause duration of each stage being         *)
(* convergence_factor times those of the previous stage; on any update     *)
(* whose elapsed time falls in a pause segment every pixel is 0, and on    *)
(* any update with elapsed >= total_duration every pixel is 1. Stated      *)
(* under SpecFx, num_stages and convergence_factor being the values the    *)
(* constructor keeps (at least 1, within [0, 0.999]).                      *)
(***************************************************************************)
SegmentDuration(k) == RSub(Fx._timeline[k][2], Fx._timeline[k][1])

InPauseAtLast ==
    \E k \in 1..Len(Fx._timeline) :
        /\ Fx._timeline[k][3] = "pause"
        /\ RLe(Fx._timeline[k][1], ElapsedAtLast)
        /\ RLt(ElapsedAtLast, Fx._timeline[k][2])

C26_FlickerRampSegments ==
    Fx.kind = "FlickerRamp" =>
        LET num_stages == Max(1, Args.num_stages)
            convergence_factor == RMax(R(0), RMin(MaxConvergence, Args.convergence_factor))
        IN  /\ Len(Fx._timeline) = 2 * num_stages
            /\ Fx._timeline[1][1] = R(0)
            /\ \A k \in 1..(Len(Fx._timeline) - 1) :
                   Fx._timeline[k + 1][1] = Fx._timeline[k][2]
            /\ \A k \in 1..Len(Fx._timeline) :
                   Fx._timeline[k][3] = IF k % 2 = 1 THEN "ramp" ELSE "pause"
            /\ \A k \in 1..(Len(Fx._timeline) - 2) :
                   SegmentDuration(k + 2) = RMul(convergence_factor, SegmentDuration(k))
            /\ calls.last # None =>
                   /\ InPauseAtLast => IsBlank(Fx)
                   /\ RGe(ElapsedAtLast, Fx.total_duration) =>
                          Fx.brightness_array = Fill(Fx.num_leds, R(1))

\* C26 witness: a FlickerRamp of two stages, lit by an update during its first
\* ramp, has been updated during a pause
C26_Witness ==
    /\ Fx.kind = "FlickerRamp"
    /\ Len(Fx._timeline) = 4
    /\ calls.last # None
    /\ calls.first[1] < calls.last[1]
    /\ RGt(R(calls.first[1] - calls.constructed[1]), R(0))
    /\ RLt(R(calls.first[1] - calls.constructed[1]), Fx._timeline[1][2])
    /\ InPauseAtLast
    /\ RGt(SegmentDuration(4), R(0))

(***************************************************************************)
(* C27: the reverse flag of a ColorSource is applied only to the arrays    *)
(* returned by a request and never to the cached arrays: for a cached      *)
(* source the output with reverse = true is exactly the output with        *)
(* reverse = false spatially flipped, switching the flag between calls on  *)
(* the same instance takes effect immediately, and the cache contents are  *)
(* the same whichever value the flag had when they were built. Stated      *)
(* under SpecCs of the source as the calls made so far have left it, for   *)
(* a next request at the current instant with either value of the flag     *)
(* (for the pixel count of the latest request, which is cached, and for    *)
(* the count after it), and for a repetition of the latest request with    *)
(* the flag switched.                                                      *)
(***************************************************************************)
\* the pixel count of the latest request and the one after it
NextCounts == {k \in PixelCounts : k = cs_calls.n \/ k = (cs_calls.n % MaxPixels) + 1}

\* source.reverse = flag
WithReverse(obj, flag) == [obj EXCEPT !.self.reverse = flag]

C27_ReverseOnlyOnOutput ==
    IsSource =>
        /\ \A num_leds \in NextCounts :
              LET reversed == get_hsv_arrays(WithReverse(cs, TRUE), num_leds, now)
                  forward == get_hsv_arrays(WithReverse(cs, FALSE), num_leds, now)
              IN  /\ reversed.out = FlipAll(forward.out)
                  /\ WithReverse(reversed.obj, FALSE) = forward.obj
                  /\ \A k \in DOMAIN cs._hues :
                         /\ forward.obj._hues[k] = cs._hues[k]
                         /\ forward.obj._sats[k] = cs._sats[k]
                         /\ forward.obj._vals[k] = cs._vals[k]
        /\ cs_calls.n # 0 =>
              get_hsv_arrays(WithReverse(cs, ~cs.self.reverse), cs_calls.n, cs_calls.t).out
                  = FlipAll(cs_calls.out)

\* C27 witness: a source constructed with reverse = true has answered a request
\* from its cache, with arrays that are the cached ones flipped and differ from
\* them
C27_Witness ==
    /\ IsSource
    /\ cs.self.reverse
    /\ cs_calls.again
    /\ cs_calls.n \in DOMAIN cs._hues
    /\ cs_calls.out = FlipAll(<<cs._hues[cs_calls.n], cs._sats[cs_calls.n],
                               cs._vals[cs_calls.n]>>)
    /\ cs_calls.out[1] # cs._hues[cs_calls.n]

(***************************************************************************)
(* C28: in segmented pause-scroll mode (scroll_fraction set, speed > 0),   *)
(* with segment distance D = num_leds * scroll_fraction, segment time      *)
(* D / speed and cycle = D / speed + pause: at time t in cycle k the       *)
(* scroll offset is k * D + speed * (t mod cycle) while (t mod cycle) <    *)
(* D / speed and exactly (k + 1) * D for the rest of the cycle; hence the  *)
(* offset never decreases over time, is constant throughout each pause,    *)
(* and does not jump at a cycle boundary. Stated under SpecCs of a         *)
(* segmented scroller and the pixel count of its latest request: of the    *)
(* offset at every instant of ScrollInstants after the start of the        *)
(* scroll, and of the arrays the latest request returned.                  *)
(***************************************************************************)
\* the instants after the start of the scroll at which the offset is examined
ScrollHalves == 16
ScrollInstants == {Rat(k, 2) : k \in 0..ScrollHalves}

IsSegmentedScroll ==
    /\ IsSource
    /\ cs.self.kind = "ScrollingColorSource"
    /\ cs.self.scroll_fraction # None
    /\ RGt(cs.self.scroll_speed, R(0))
    /\ cs_calls.n # 0

SegmentDistance == RMul(R(cs_calls.n), cs.self.scroll_fraction[1])
SegmentTime == RDiv(SegmentDistance, cs.self.scroll_speed)
ScrollCycle == RAdd(SegmentTime, cs.self.pause)

\* the time from the start of the scroll to the call at instant t
SinceScrollStart(t) == RMax(R(0), RSub(RSub(R(t), cs.self._start_time), cs.self.delay))

\* the offset, in pixels, that the scroller computes tau after the start of its
\* scroll
OffsetAfter(tau) ==
    RDiv(ScrollingColorSource_high_res_offset(
             [cs.self EXCEPT !._start_time = R(0), !.delay = RNeg(tau)], cs_calls.n, 0),
         R(cs.self.resolution_multiplier))

\* the offset of the claim: cycle k = floor(tau / cycle), tau mod cycle
SegmentedOffset(tau) ==
    LET k == RInt(RDiv(tau, ScrollCycle))
        in_cycle == RSub(tau, RMul(R(k), ScrollCycle))
    IN  IF RLt(in_cycle, SegmentTime)
        THEN RAdd(RMul(R(k), SegmentDistance), RMul(cs.self.scroll_speed, in_cycle))
        ELSE RMul(R(k + 1), SegmentDistance)

InPause(tau) ==
    RGe(RSub(tau, RMul(R(RInt(RDiv(tau, ScrollCycle))), ScrollCycle)), SegmentTime)

\* the arrays of a request for the latest pixel count when the offset is offset
ScrolledBy(offset) ==
    LET key == cs_calls.n * cs.self.resolution_multiplier
        base == <<cs._base_hues[key], cs._base_sats[key], cs._base_vals[key]>>
        final == [c \in Channels |->
                     Decimate(Roll(base[c],
                                   -RInt(RMul(offset, R(cs.self.resolution_multiplier)))),
                              cs.self.resolution_multiplier, cs_calls.n)]
    IN  IF cs.self.reverse THEN FlipAll(final) ELSE final

C28_SegmentedScroll ==
    (IsSegmentedScroll /\ RGt(ScrollCycle, R(0))) =>
        LET instant == [i \in 0..ScrollHalves |-> Rat(i, 2)]
            offset == [i \in 0..ScrollHalves |-> OffsetAfter(instant[i])]
            cycle == [i \in 0..ScrollHalves |-> RInt(RDiv(instant[i], ScrollCycle))]
        IN  /\ \A i \in 0..ScrollHalves : offset[i] = SegmentedOffset(instant[i])
            \* from one instant to the next: no decrease, no advance beyond
            \* speed * dt, no change within a pause
            /\ \A i \in 1..ScrollHalves :
                  /\ RLe(offset[i - 1], offset[i])
                  /\ RLe(RSub(offset[i], offset[i - 1]),
                         RMul(cs.self.scroll_speed, Rat(1, 2)))
                  /\ (/\ InPause(instant[i - 1]) /\ InPause(instant[i])
                      /\ cycle[i - 1] = cycle[i])
                         => offset[i - 1] = offset[i]
            \* at the boundary that opens cycle k the offset is k * D, the offset
            \* held at the end of cycle k - 1
            /\ \A k \in 0..(ScrollHalves \div 2) :
                  RLe(RMul(R(k), ScrollCycle), R(ScrollHalves \div 2)) =>
                      OffsetAfter(RMul(R(k), ScrollCycle)) = RMul(R(k), SegmentDistance)
            /\ cs_calls.out = ScrolledBy(SegmentedOffset(SinceScrollStart(cs_calls.t)))

\* C28 witness: the latest request to a segmented scroller with a pause was made
\* in the pause of its first cycle or later, the scroll having advanced by a whole
\* segment at least
C28_Witness ==
    /\ IsSegmentedScroll
    /\ RGt(SegmentDistance, R(0))
    /\ RGt(cs.self.pause, R(0))
    /\ RGe(SinceScrollStart(cs_calls.t), SegmentTime)
    /\ RGe(SegmentedOffset(SinceScrollStart(cs_calls.t)), SegmentDistance)
    /\ cs_calls.out = ScrolledBy(SegmentedOffset(SinceScrollStart(cs_calls.t)))
    /\ cs_calls.out # ScrolledBy(R(0))

(***************************************************************************)
(* C30: every update() resets the canvas of every managed device to black  *)
(* before it paints on it, and pushes exactly one frame to every managed   *)
(* device; a device with no active effect is pushed an all-black frame, and *)
(* a pixel of a pushed frame that no effect painted during this update() is *)
(* black, so that nothing painted by an earlier update() survives.  Stated *)
(* under Spec of the state that an update() leaves.                        *)
(***************************************************************************)
\* the positions, in the trace tr, of the events of kind what on device d
EventsOn(tr, what, d) == {i \in 1..Len(tr) : tr[i][1] = what /\ tr[i][2] = d}

\* the pixels of the canvas of d that some blend of the update() with trace tr wrote
PaintedPixels(tr, d) == UNION {1..tr[i][3] : i \in EventsOn(tr, "paint", d)}

C30_ResetThenPushOnce ==
    IsUpdateTrace(trace) =>
        \A d \in Devices :
            /\ Cardinality(EventsOn(trace, "reset", d)) = 1
            /\ \A i \in EventsOn(trace, "reset", d) :
                   \A j \in EventsOn(trace, "paint", d) : i < j
            /\ Cardinality(EventsOn(trace, "show", d)) = 1
            /\ hw[d] = Some(canvases[d])
            /\ \A p \in 1..Len(canvases[d]) :
                   p \notin PaintedPixels(trace, d) => hw[d][1][p] = Black
            /\ EventsOn(trace, "paint", d) = {} => hw[d] = Some(Fill(NumLeds(d), Black))

\* C30 witness: the update() just made, after the first tick of the clock, painted
\* d2 and painted nothing on d1, which has no effect left: d1 was pushed an
\* all-black frame and d2 a frame with a lit pixel
C30_Witness ==
    /\ IsUpdateTrace(trace)
    /\ now >= 1
    /\ EventsOn(trace, "paint", "d1") = {}
    /\ EventsOn(trace, "paint", "d2") # {}
    /\ Cardinality(EventsOn(trace, "show", "d1")) = 1
    /\ hw["d1"] = Some(Fill(NumLeds("d1"), Black))
    /\ \E p \in 1..NumLeds("d2") : hw["d2"][1][p] # Black

(***************************************************************************)
(* C31: add_effect appends at the end of the list of the target device and *)
(* update() keeps the relative order of the effects it keeps, so the paint *)
(* order is the insertion order; each effect of a list has                 *)
(* calculate_frame() called exactly once per update(), in list order.      *)
(* Stated under Spec of every step that is an add_effect or an update().   *)
(***************************************************************************)
\* a is b with some entries left out, the others in the order of b
RECURSIVE IsSubsequence(_, _)
IsSubsequence(a, b) ==
    IF a = <<>> THEN TRUE
    ELSE IF b = <<>> THEN FALSE
    ELSE IF Head(a) = Head(b) THEN IsSubsequence(Tail(a), Tail(b))
    ELSE IsSubsequence(a, Tail(b))

\* the number of calculate_frame() calls made on the effect e in the trace tr
CallCount(tr, e) == Cardinality({i \in 1..Len(tr) : tr[i] = <<"calculate_frame", e>>})

\* the lists after add_effect of the effect e, whose target is device
Appended(map, device, e) ==
    [d \in DOMAIN map |-> IF d = device THEN Append(map[d], e) ELSE map[d]]

\* the part of C31 about the entries of the lists: an add appends, an update() calls
\* the entries of each list in list order, one call per entry, and keeps them in order
C31_EntriesInOrder ==
    [][/\ \A e \in EffectIds :
             /\ add_effect(e) =>
                    effects_map' = Appended(effects_map, fx[e].rgb_container, e)
             /\ \A a \in MgrInputs :
                    add_new_effect(e, a) =>
                        effects_map' = Appended(effects_map, a.rgb_container, e)
       /\ IsUpdateTrace(trace') =>
             \A d \in Devices :
                 /\ RenderedOn(trace', d) = effects_map[d]
                 /\ IsSubsequence(effects_map'[d], effects_map[d])]_vars

C31_AppendOrderOneCall ==
    [][/\ \A e \in EffectIds :
             /\ add_effect(e) =>
                    effects_map' = Appended(effects_map, fx[e].rgb_container, e)
             /\ \A a \in MgrInputs :
                    add_new_effect(e, a) =>
                        effects_map' = Appended(effects_map, a.rgb_container, e)
       /\ IsUpdateTrace(trace') =>
             \A d \in Devices :
                 /\ RenderedOn(trace', d) = effects_map[d]
                 /\ IsSubsequence(effects_map'[d], effects_map[d])
                 /\ \A k \in 1..Len(effects_map[d]) :
                        CallCount(trace', effects_map[d][k]) = 1]_vars

(***************************************************************************)
(* C32: after any update of any concrete effect, its brightness array has  *)
(* length num_leds and every element lies in [0, 1].  Stated under SpecFx  *)
(* of the effect after its latest update.                                  *)
(***************************************************************************)
C32_BrightnessInRange ==
    calls.last # None =>
        /\ Len(Fx.brightness_array) = Fx.num_leds
        /\ \A i \in 1..Len(Fx.brightness_array) :
               /\ RGe(Fx.brightness_array[i], R(0))
               /\ RLe(Fx.brightness_array[i], R(1))

\* C32 witness: a LiquidFill whose latest update clipped the ramp: the ramp value
\* of a pixel behind the wavefront is above 1 and the pixel holds 1
C32_Witness ==
    /\ Fx # NoEffect
    /\ Fx.kind = "LiquidFill"
    /\ calls.last # None
    /\ ~is_finished(Fx)
    /\ \E i \in 1..Fx.num_leds :
          /\ RGt(RSub(LiquidFillPosition, R(i - 1)), R(Fx.wavefront_width))
          /\ Fx.brightness_array[i] = R(1)

(***************************************************************************)
(* C33: the brightness of an effect is a pure function of time: two        *)
(* instances built at the same instant with the same parameters, updated   *)
(* on different schedules, have identical brightness arrays and finished   *)
(* flags whenever both are updated at the same instant.  Stated under      *)
(* SpecFx of the effect after its latest update, on whatever schedule,     *)
(* against a twin instance whose only update is the one at that instant.   *)
(***************************************************************************)
\* the twin: constructed with the same arguments at the same instant, and updated
\* once, at the instant of the latest update, drawing the noise sample u
TwinUpdatedOnce(u) ==
    LET twin == Construct(calls.args, calls.constructed[1])
    IN  update_brightness(twin, calls.last[1], NoiseOf(twin, u))

C33_PureFunctionOfTime ==
    calls.last # None =>
        \E u \in NoiseLevels :
            /\ Fx.brightness_array = TwinUpdatedOnce(u).brightness_array
            /\ is_finished(Fx) = is_finished(TwinUpdatedOnce(u))

(***************************************************************************)
(* C39: a ChaseRamp updated again and again as time advances eventually    *)
(* reports finished if and only if max_speed > initial_speed and           *)
(* acceleration > 0; with max_speed <= initial_speed it never enters the   *)
(* finishing phase and never finishes.  Stated under SpecFx with the       *)
(* deadlines that "eventually" stands for: the finishing phase has begun   *)
(* by any update made (max_speed - initial_speed) / acceleration after the *)
(* construction, and the effect is finished by any update made             *)
(* flicker_duration after the update that began the phase.                 *)
(***************************************************************************)
\* the speed can reach max_speed
RampCanFinish ==
    /\ RGt(Fx.max_speed, Fx.initial_speed)
    /\ RGt(Fx.acceleration, R(0))

\* the time the speed takes from initial_speed to max_speed
RampTime == RDiv(RSub(Fx.max_speed, Fx.initial_speed), Fx.acceleration)

C39_ChaseRampFinishesIff ==
    Fx.kind = "ChaseRamp" =>
        /\ ~RampCanFinish => (~Fx._is_finishing /\ ~is_finished(Fx))
        /\ (RampCanFinish /\ calls.last # None) =>
              /\ RGe(ElapsedAtLast, RampTime) => Fx._is_finishing
              /\ is_finished(Fx) => Fx._is_finishing
              /\ (/\ Fx._is_finishing
                  /\ RGt(Fx._last_update_time, Fx._finish_start_time[1])
                  /\ RGe(RSub(Fx._last_update_time, Fx._finish_start_time[1]),
                         Fx.flicker_duration))
                    => is_finished(Fx)

\* C39 witness: a ChaseRamp whose speed can reach max_speed has finished, after a
\* finishing phase that began when the ramp time had passed
C39_Witness ==
    /\ Fx.kind = "ChaseRamp"
    /\ RampCanFinish
    /\ is_finished(Fx)
    /\ RGe(RSub(Fx._finish_start_time[1], Fx.start_time), RampTime)
    /\ RGt(Fx.flicker_duration, R(0))

(***************************************************************************)
(* C40: on every LiquidFill update the brightness is non-increasing in the *)
(* pixel index, the brightness of each pixel is non-decreasing over        *)
(* successive updates, and every pixel is already 1 on any update with     *)
(* position >= num_leds - 1 + wavefront_width, so that the finishing       *)
(* update (all pixels forced to 1) changes no pixel relative to the frame  *)
(* just before it.  Stated under SpecFx of every update step of a          *)
(* LiquidFill, the frame just before being the array that the step finds.  *)
(***************************************************************************)
\* the position from which every pixel of the ramp is 1
LiquidFillFull == R(Fx.num_leds - 1 + Fx.wavefront_width)

C40_LiquidFillMonotone ==
    [][(Fx.kind = "LiquidFill" /\ FxUpdate) =>
          /\ \A i, j \in 1..Fx.num_leds :
                 i < j => RGe(fx'[1].brightness_array[i], fx'[1].brightness_array[j])
          /\ \A i \in 1..Fx.num_leds :
                 RGe(fx'[1].brightness_array[i], Fx.brightness_array[i])
          /\ RGe(RMul(R(now - calls.constructed[1]), Fx.options.speed), LiquidFillFull)
                => \A i \in 1..Fx.num_leds : fx'[1].brightness_array[i] = R(1)
          /\ (~is_finished(Fx) /\ is_finished(fx'[1]))
                => fx'[1].brightness_array = Fx.brightness_array]_vars

\* C40 as the code has it: the finishing update changes no pixel when the update
\* before it was made at a position of num_leds - 1 + wavefront_width or more;
\* after a longer step it raises the pixels that were still below 1
C40_LiquidFillMonotoneFromFull ==
    [][(Fx.kind = "LiquidFill" /\ FxUpdate) =>
          /\ \A i, j \in 1..Fx.num_leds :
                 i < j => RGe(fx'[1].brightness_array[i], fx'[1].brightness_array[j])
          /\ \A i \in 1..Fx.num_leds :
                 RGe(fx'[1].brightness_array[i], Fx.brightness_array[i])
          /\ RGe(RMul(R(now - calls.constructed[1]), Fx.options.speed), LiquidFillFull)
                => \A i \in 1..Fx.num_leds : fx'[1].brightness_array[i] = R(1)
          /\ (/\ ~is_finished(Fx)
              /\ is_finished(fx'[1])
              /\ calls.last # None
              /\ RGe(LiquidFillPosition, LiquidFillFull))
                => fx'[1].brightness_array = Fx.brightness_array
          /\ (/\ ~is_finished(Fx)
              /\ is_finished(fx'[1])
              /\ (calls.last = None \/ RLt(LiquidFillPosition, LiquidFillFull)))
                => \E i \in 1..Fx.num_leds :
                       RLt(Fx.brightness_array[i], fx'[1].brightness_array[i])]_vars

\* C40 witness: the latest update of a LiquidFill was made at a position between
\* num_leds - 1 + wavefront_width and the finishing position: the effect is not
\* finished and every pixel is 1
C40_Witness ==
    /\ Fx.kind = "LiquidFill"
    /\ calls.last # None
    /\ ~is_finished(Fx)
    /\ RGe(LiquidFillPosition, LiquidFillFull)
    /\ \A i \in 1..Fx.num_leds : Fx.brightness_array[i] = R(1)

(***************************************************************************)
(* connect_with_retry (utils/openrgb_helper.py)                            *)
(***************************************************************************)
ConnMaxTime == 5    \* the clock stops here for a connect_with_retry call
MaxAttempts == 4    \* the attempts of one call that are followed

\* what an attempt can find: no server (OpenRGBClient() raises), or a server with
\* so many devices, with or without a motherboard among them, whose first
\* motherboard has so many zones
NoServer == [connects |-> FALSE, devices |-> 0, motherboard |-> FALSE, zones |-> 0]
Server(devices, motherboard, zones) ==
    [connects |-> TRUE, devices |-> devices, motherboard |-> motherboard, zones |-> zones]

ConnServers ==
    {NoServer, Server(0, FALSE, 0), Server(1, TRUE, 2), Server(2, FALSE, 0),
     Server(2, TRUE, 1), Server(2, TRUE, 2), Server(3, TRUE, 3)}

\* the calls made: connect_with_retry(num_devices, num_zones, timeout, interval),
\* the times in ticks
ConnInputs ==
    {[num_devices |-> 2, num_zones |-> 2, timeout |-> 2, interval |-> 1],
     [num_devices |-> 2, num_zones |-> 2, timeout |-> 3, interval |-> 2],
     [num_devices |-> 1, num_zones |-> 3, timeout |-> 3, interval |-> 1]}

\* a variant of the try block that returns the client without looking at the zones
connect_attempt_any_zones(c, server) ==
    IF ~server.connects THEN "sleep"
    ELSE IF server.devices = 0 THEN "retry"
    ELSE IF server.devices >= c.num_devices
         THEN (IF ~server.motherboard THEN "sleep" ELSE "return")
    ELSE "retry"

\* one pass of the try block of the loop, against the server found: "return" (return
\* client), "retry" (a message is printed and the loop goes round at once) or "sleep"
\* (an exception was raised, by OpenRGBClient() or by [0] on an empty list of
\* motherboards: time.sleep(interval) in the except clause)
connect_attempt(c, server) ==
    IF ~server.connects THEN "sleep"
    ELSE IF server.devices = 0 THEN "retry"
    ELSE IF server.devices >= c.num_devices
         THEN (IF ~server.motherboard THEN "sleep"
               ELSE IF server.zones >= c.num_zones THEN "return"
               ELSE "retry")
    ELSE "retry"

InitConn ==
    /\ now = 0
    /\ \E a \in ConnInputs :
          conn = [pc |-> "loop", num_devices |-> a.num_devices,
                  num_zones |-> a.num_zones, timeout |-> a.timeout,
                  interval |-> a.interval, start_time |-> now,
                  last |-> None, count |-> 0, client |-> None]
    /\ fx = [e \in EffectIds |-> NoEffect]
    /\ calls = NoCalls
    /\ StageManager_init
    /\ hw = [d \in AllDevices |-> None]
    /\ cs = NoSource
    /\ cs_calls = NoSourceCalls
    /\ app = NoApp
    /\ trace = <<>>

\* one iteration of the while loop: the attempt begins now, takes d ticks and finds
\* the server as it then is; after an exception the call sleeps
ConnAttempt ==
    /\ conn.pc = "loop"
    /\ now - conn.start_time < conn.timeout
    /\ conn.count < MaxAttempts
    /\ \E server \in ConnServers, d \in {0, 1} :
          \E outcome \in {connect_attempt(conn, server)} :
              \E slept \in {IF outcome = "sleep" THEN conn.interval ELSE 0} :
                  /\ now + d + slept <= ConnMaxTime
                  /\ now' = now + d + slept
                  /\ conn' = [conn EXCEPT
                                 !.pc = IF outcome = "return" THEN "returned" ELSE "loop",
                                 !.client = IF outcome = "return" THEN Some(server) ELSE None,
                                 !.last = Some([begun |-> now, ended |-> now + d,
                                                server |-> server, outcome |-> outcome]),
                                 !.count = @ + 1]
    /\ UNCHANGED <<fx, calls, effects_map, canvases, hw, trace, cs, cs_calls, app>>

\* the loop condition fails: raise TimeoutError
ConnTimeout ==
    /\ conn.pc = "loop"
    /\ now - conn.start_time >= conn.timeout
    /\ conn' = [conn EXCEPT !.pc = "raised"]
    /\ UNCHANGED <<now, fx, calls, effects_map, canvases, hw, trace, cs, cs_calls, app>>

NextConn ==
    \/ ConnAttempt
    \/ ConnTimeout

SpecConn == InitConn /\ [][NextConn]_vars

(***************************************************************************)
(* C35, C36: connect_with_retry                                            *)
(***************************************************************************)
ConnElapsed == now - conn.start_time

\* the two checks of the claim, on the server an attempt found
ServerSuffices(c, server) ==
    /\ server.connects
    /\ server.devices >= c.num_devices
    /\ server.motherboard
    /\ server.zones >= c.num_zones

\* C35: connect_with_retry returns a client only from an attempt that found at least
\* num_devices devices and a first motherboard with at least num_zones zones, and the
\* client it returns is the one of that attempt; it raises TimeoutError only from the
\* loop once timeout has elapsed, and once timeout has elapsed with no attempt having
\* succeeded the only step it takes is to raise TimeoutError.
C35_ReturnsOnlySufficientClient ==
    [][/\ conn'.pc = "returned" =>
             /\ conn.pc = "loop"
             /\ ConnElapsed < conn.timeout
             /\ conn'.last # None
             /\ ServerSuffices(conn, conn'.last[1].server)
             /\ conn'.client = Some(conn'.last[1].server)
       /\ conn'.pc = "raised" =>
             /\ conn.pc = "loop"
             /\ ConnElapsed >= conn.timeout
             /\ conn'.client = None
       /\ (conn.pc = "loop" /\ ConnElapsed >= conn.timeout) => conn'.pc = "raised"
       /\ conn.pc \in {"returned", "raised"} => conn' = conn]_vars

\* a client is returned by an attempt that followed a failed one
C35_Witness ==
    /\ conn.pc = "returned"
    /\ conn.count >= 2
    /\ ServerSuffices(conn, conn.client[1])

\* C36: an attempt of connect_with_retry that follows another begins at least
\* interval after the previous one ended, whatever made the previous one fail.
C36_IntervalBetweenAttempts ==
    [][(ConnAttempt /\ conn.last # None) =>
           now - conn.last[1].ended >= conn.interval]_vars

\* the attempts that do wait: those that follow an exception
C36_IntervalAfterException ==
    [][(ConnAttempt /\ conn.last # None /\ conn.last[1].outcome = "sleep") =>
           now - conn.last[1].ended >= conn.interval]_vars

(***************************************************************************)
(* run() (main.py), from the successful return of setup_hardware_with_retry *)
(***************************************************************************)
RunMaxTime == 32       \* the clock stops here for a run() call
RunPeriods == {1, 2}   \* the time one iteration of the main loop takes, in seconds
RunGamma == 1          \* the integer exponent standing for DEFAULT_GAMMA

AppStates == <<"STATE_1_LIQUID", "STATE_2_MAIN_SHOW", "STATE_3_FADE_OUT", "STATE_4_IDLE">>

\* all_managed_devices = list(motherboard_zones.values()) + standalone_devices, with
\* sticks DRAM sticks among the standalone devices (setup requires one at least)
all_managed_devices(sticks) ==
    IF sticks >= 2 THEN <<"strimmer", "fans", "dram1", "dram2">>
    ELSE <<"strimmer", "fans", "dram1">>

ManagedSet(sticks) ==
    {all_managed_devices(sticks)[i] : i \in 1..Len(all_managed_devices(sticks))}

\* the colour sources of run(): run() reads no colour, so a static colour stands for
\* each of the scrolling and shifting sources
strimmer_source == StaticColor(<<Rat(1, 20), R(1), R(1)>>, FALSE)
fan_scrolling_color == StaticColor(<<Rat(1, 12), R(1), R(1)>>, FALSE)
ram_idle_gradient == StaticColor(<<Rat(1, 2), R(1), R(1)>>, FALSE)

RunOptions(speed, reverse, dither_strength) ==
    EffectOptions(speed, reverse, dither_strength, RunGamma)

\* the effect objects run() constructs, by the name of the variable that holds them
\* (strimmer_static is the StaticBrightness handed to add_effect unnamed)
RunEffectIds ==
    {"effect", "strimmer_static", "chase1", "chase2", "fan_chase",
     "fade_strimmer", "fade_fans", "fade_dram1", "fade_dram2",
     "idle_ram1", "idle_ram2", "idle_fan_chase", "idle_strimmer_chase",
     "idle_breathing_fans"}

RunChase(device, source, speed, delay, loop_interval, reverse) ==
    [kind |-> "Chase", rgb_container |-> device, color_source |-> source, width |-> 3,
     delay |-> delay, duration |-> None, loop_interval |-> loop_interval,
     resolution_multiplier |-> 8, options |-> RunOptions(speed, reverse, R(0))]

RunStatic(device, source) ==
    [kind |-> "StaticBrightness", rgb_container |-> device, color_source |-> source,
     brightness |-> R(1), duration |-> None, options |-> RunOptions(R(1), FALSE, R(0))]

RunFade(kind, device, source) ==
    [kind |-> kind, rgb_container |-> device, color_source |-> source,
     duration |-> R(3), delay |-> R(0), options |-> RunOptions(R(1), FALSE, R(0))]

\* the arguments of the constructor call that makes the object id
RunArgs(id) ==
    CASE id = "effect" ->
            [kind |-> "LiquidFill", rgb_container |-> "strimmer",
             color_source |-> strimmer_source, wavefront_width |-> 7,
             options |-> RunOptions(R(5), FALSE, R(0))]
      [] id = "strimmer_static" -> RunStatic("strimmer", fan_scrolling_color)
      [] id = "chase1" ->
            RunChase("dram1", fan_scrolling_color, R(20), R(0), R(1), TRUE)
      [] id = "chase2" ->
            RunChase("dram2", fan_scrolling_color, R(20), Rat(3, 10), R(1), TRUE)
      [] id = "fan_chase" ->
            [kind |-> "ChaseRamp", rgb_container |-> "fans",
             color_source |-> fan_scrolling_color,
             initial_speed |-> R(5), acceleration |-> R(10), max_speed |-> R(120),
             initial_width |-> 5, max_width |-> 100, flicker_duration |-> Rat(3, 2),
             resolution_multiplier |-> 8,
             options |-> RunOptions(R(1), TRUE, Rat(7, 50))]
      [] id = "fade_strimmer" -> RunFade("FadeToBlack", "strimmer", fan_scrolling_color)
      [] id = "fade_fans" -> RunFade("FadeToBlack", "fans", fan_scrolling_color)
      [] id = "fade_dram1" -> RunFade("FadeIn", "dram1", ram_idle_gradient)
      [] id = "fade_dram2" -> RunFade("FadeIn", "dram2", ram_idle_gradient)
      [] id = "idle_ram1" -> RunStatic("dram1", ram_idle_gradient)
      [] id = "idle_ram2" -> RunStatic("dram2", ram_idle_gradient)
      [] id = "idle_fan_chase" ->
            RunChase("fans", ram_idle_gradient, R(30), R(5), R(15), FALSE)
      [] id = "idle_strimmer_chase" ->
            RunChase("strimmer", ram_idle_gradient, R(30), R(5), R(15), FALSE)
      [] id = "idle_breathing_fans" ->
            [kind |-> "Breathing", rgb_container |-> "fans",
             color_source |-> ram_idle_gradient,
             cycle_duration |-> R(4), min_brightness |-> R(0),
             max_brightness |-> R(1), delay |-> R(0), duration |-> None,
             on_duration |-> Some(R(30)), off_duration |-> Some(R(90)),
             transition_duration |-> R(5), options |-> RunOptions(R(5), FALSE, R(0))]

\* manager.add_effect(X(...)) at instant t, on the manager state m: the object id is
\* constructed and appended to the list of its device (every device of run() is managed)
RunAddEffect(m, id, t) ==
    LET effect == Construct(RunArgs(id), t)
    IN  [m EXCEPT !.fx[id] = effect,
                  !.effects_map[effect.rgb_container] = Append(@, id)]

RECURSIVE RunAddEffects(_, _, _)
RunAddEffects(m, ids, t) ==
    IF ids = <<>> THEN m
    ELSE RunAddEffects(RunAddEffect(m, Head(ids), t), Tail(ids), t)

\* manager.clear_all_effects() on the manager state m
RunClearAll(m) == [m EXCEPT !.effects_map = [d \in DOMAIN @ |-> <<>>]]

\* manager.update() of run()'s manager: the two loops of update() over the devices
\* the manager was built with
RECURSIVE RunRenderDevices(_, _, _, _, _)
RunRenderDevices(devices, i, st, t, rnd) ==
    IF i > Len(devices) THEN st
    ELSE
    LET device == devices[i]
        st0 == [st EXCEPT !.canvas = ResetCanvas(st.canvases[device]),
                          !.effects_to_keep = <<>>,
                          !.trace = Append(@, <<"reset", device>>)]
    IN  CHOOSE out \in
            {RunRenderDevices(devices, i + 1,
                 [st1 EXCEPT !.canvases[device] = st1.canvas,
                             !.effects_map[device] = st1.effects_to_keep],
                 t, rnd) :
             st1 \in {RenderEffects(st.effects_map[device], 1, st0, device, t, rnd)}} : TRUE

RECURSIVE RunShowDevices(_, _, _)
RunShowDevices(devices, i, st) ==
    IF i > Len(devices) THEN st
    ELSE LET device == devices[i]
         IN  RunShowDevices(devices, i + 1,
                 [st EXCEPT !.hw[device] = Some(st.canvases[device]),
                            !.trace = Append(@, <<"show", device>>)])

\* manager.update() at instant t
RunManagerUpdate(t, rnd) ==
    CHOOSE out \in
        {RunShowDevices(all_managed_devices(app.sticks), 1, st) :
         st \in {RunRenderDevices(all_managed_devices(app.sticks), 1,
                     [fx |-> fx, effects_map |-> effects_map,
                      canvases |-> canvases, hw |-> hw, trace |-> <<>>,
                      canvas |-> <<>>, effects_to_keep |-> <<>>],
                     t, rnd)}} : TRUE

\* a variant of the test that lets the state advance on every iteration
is_state_finished_always(blocking_effects, f) == TRUE

\* is_state_finished = all(effect.is_finished() for effect in blocking_effects)
is_state_finished(blocking_effects, f) ==
    \A k \in 1..Len(blocking_effects) : is_finished(f[blocking_effects[k]])

\* the body of "if is_state_finished:" at instant t, on the manager state m: the new
\* current_state and blocking_effects, the manager state, and the exception raised
\* (dram_sticks[1] raises IndexError when there is one stick)
RunTransition(a, m, t) ==
    CASE a.current_state = "STATE_1_LIQUID" ->
            LET m1 == RunAddEffect(
                          [m EXCEPT !.effects_map =
                               StageManager_clear_effects(@, "strimmer")],
                          "strimmer_static", t)
            IN  IF a.sticks < 2
                THEN [current_state |-> "STATE_2_MAIN_SHOW", blocking_effects |-> <<>>,
                      fx |-> m1.fx, effects_map |-> m1.effects_map,
                      raised |-> "IndexError"]
                ELSE
                LET m2 == RunAddEffects(m1, <<"chase1", "chase2", "fan_chase">>, t)
                IN  [current_state |-> "STATE_2_MAIN_SHOW",
                     blocking_effects |-> <<"fan_chase">>,
                     fx |-> m2.fx, effects_map |-> m2.effects_map, raised |-> "none"]
      [] a.current_state = "STATE_2_MAIN_SHOW" ->
            IF a.sticks < 2
            THEN [current_state |-> "STATE_3_FADE_OUT", blocking_effects |-> <<>>,
                  fx |-> m.fx, effects_map |-> RunClearAll(m).effects_map,
                  raised |-> "IndexError"]
            ELSE
            LET m2 == RunAddEffects(RunClearAll(m),
                          <<"fade_strimmer", "fade_fans", "fade_dram1", "fade_dram2">>, t)
            IN  [current_state |-> "STATE_3_FADE_OUT",
                 blocking_effects |->
                     <<"fade_strimmer", "fade_fans", "fade_dram1", "fade_dram2">>,
                 fx |-> m2.fx, effects_map |-> m2.effects_map, raised |-> "none"]
      [] a.current_state = "STATE_3_FADE_OUT" ->
            IF a.sticks < 2
            THEN [current_state |-> "STATE_4_IDLE", blocking_effects |-> <<>>,
                  fx |-> m.fx, effects_map |-> RunClearAll(m).effects_map,
                  raised |-> "IndexError"]
            ELSE
            LET m2 == RunAddEffects(RunClearAll(m),
                          <<"idle_ram1", "idle_ram2", "idle_fan_chase",
                            "idle_strimmer_chase", "idle_breathing_fans">>, t)
            IN  [current_state |-> "STATE_4_IDLE",
                 blocking_effects |->
                     <<"idle_ram1", "idle_ram2", "idle_fan_chase", "idle_strimmer_chase">>,
                 fx |-> m2.fx, effects_map |-> m2.effects_map, raised |-> "none"]
      [] OTHER ->
            [current_state |-> a.current_state, blocking_effects |-> a.blocking_effects,
             fx |-> m.fx, effects_map |-> m.effects_map, raised |-> "none"]

\* a variant of run() that clears the devices in the KeyboardInterrupt handler only
RunLeave_in_handler(exception) ==
    IF exception = "KeyboardInterrupt" THEN "cleanup" ELSE "done"

\* where control goes when the exception leaves the try block of the main loop: the
\* finally clause runs whatever was raised
RunLeave(exception) == "cleanup"

InitRun ==
    /\ now = 0
    /\ \E sticks \in {1, 2}, period \in RunPeriods :
        /\ app = [pc |-> "loop", sticks |-> sticks, period |-> period,
                  current_state |-> "STATE_1_LIQUID",
                  blocking_effects |-> <<"effect">>,
                  is_state_finished |-> FALSE,
                  exception |-> "none", cleaned |-> 0]
        /\ fx = [e \in RunEffectIds |->
                    IF e = "effect" THEN Construct(RunArgs(e), now) ELSE NoEffect]
        /\ effects_map = [d \in ManagedSet(sticks) |->
                             IF d = "strimmer" THEN <<"effect">> ELSE <<>>]
        /\ canvases = [d \in ManagedSet(sticks) |-> Fill(NumLeds(d), Black)]
        /\ hw = [d \in ManagedSet(sticks) |-> None]
    /\ calls = NoCalls
    /\ cs = NoSource
    /\ cs_calls = NoSourceCalls
    /\ conn = NoConn
    /\ trace = <<>>

\* one iteration of the while loop, begun at now: manager.update(), the test of the
\* blocking effects, the transition, and the sleep to the end of the period
RunIteration ==
    /\ app.pc = "loop"
    /\ now + app.period <= RunMaxTime
    /\ \E rnd \in UpdateRandoms :
        \E st \in {RunManagerUpdate(now, rnd)} :
        \E finished \in {is_state_finished(app.blocking_effects, st.fx)} :
        \E out \in {IF finished
                    THEN RunTransition(app, [fx |-> st.fx, effects_map |-> st.effects_map], now)
                    ELSE [current_state |-> app.current_state,
                          blocking_effects |-> app.blocking_effects,
                          fx |-> st.fx, effects_map |-> st.effects_map,
                          raised |-> "none"]} :
            /\ fx' = out.fx
            /\ effects_map' = out.effects_map
            /\ canvases' = st.canvases
            /\ hw' = st.hw
            /\ trace' = st.trace
            /\ app' = [app EXCEPT !.current_state = out.current_state,
                                  !.blocking_effects = out.blocking_effects,
                                  !.is_state_finished = finished,
                                  !.exception = out.raised,
                                  !.pc = IF out.raised = "none" THEN "loop"
                                         ELSE RunLeave(out.raised)]
            /\ now' = IF out.raised = "none" THEN now + app.period ELSE now
    /\ UNCHANGED <<calls, cs, cs_calls, conn>>

\* Ctrl-C while the loop runs
RunInterrupt ==
    /\ app.pc = "loop"
    /\ app' = [app EXCEPT !.exception = "KeyboardInterrupt",
                          !.pc = RunLeave("KeyboardInterrupt")]
    /\ trace' = <<>>
    /\ UNCHANGED <<now, fx, calls, effects_map, canvases, hw, cs, cs_calls, conn>>

\* an exception raised inside the loop, on the entry of manager.update() (the server
\* is gone), before the call has changed anything
RunFailure ==
    /\ app.pc = "loop"
    /\ app' = [app EXCEPT !.exception = "Exception", !.pc = RunLeave("Exception")]
    /\ trace' = <<>>
    /\ UNCHANGED <<now, fx, calls, effects_map, canvases, hw, cs, cs_calls, conn>>

\* one pass of the loop of the finally clause: device.clear(); device.show()
RunCleanup ==
    /\ app.pc = "cleanup"
    /\ app.cleaned < Len(all_managed_devices(app.sticks))
    /\ \E device \in {all_managed_devices(app.sticks)[app.cleaned + 1]} :
        /\ hw' = [hw EXCEPT ![device] = Some(Fill(NumLeds(device), Black))]
        /\ trace' = trace \o << <<"clear", device>>, <<"show", device>> >>
    /\ app' = [app EXCEPT !.cleaned = @ + 1]
    /\ UNCHANGED <<now, fx, calls, effects_map, canvases, cs, cs_calls, conn>>

\* the finally clause is through: run() returns after a KeyboardInterrupt and lets any
\* other exception propagate
RunDone ==
    /\ app.pc = "cleanup"
    /\ app.cleaned = Len(all_managed_devices(app.sticks))
    /\ app' = [app EXCEPT !.pc = "done"]
    /\ UNCHANGED <<now, fx, calls, effects_map, canvases, hw, trace, cs, cs_calls, conn>>

NextRun ==
    \/ RunIteration
    \/ RunInterrupt
    \/ RunFailure
    \/ RunCleanup
    \/ RunDone

SpecRun == InitRun /\ [][NextRun]_vars

(***************************************************************************)
(* C34, C37, C38: the main loop of run()                                   *)
(***************************************************************************)
ManagedDevices == all_managed_devices(app.sticks)

\* the "clear" events of the trace, in order
ClearEvents == SelectSeq(trace, LAMBDA ev : ev[1] = "clear")

StateIndex(s) == CHOOSE i \in 1..Len(AppStates) : AppStates[i] = s

\* C37: on every step current_state stays or moves to the next state of the sequence
\* STATE_1_LIQUID, STATE_2_MAIN_SHOW, STATE_3_FADE_OUT, STATE_4_IDLE; it moves only
\* in an iteration of the loop in which, after manager.update(), every effect of
\* blocking_effects is finished.
C37_StateOrder ==
    [][LET i == StateIndex(app.current_state)
           j == StateIndex(app'.current_state)
       IN  /\ j \in {i, i + 1}
           /\ j = i + 1 =>
                 /\ app.pc = "loop"
                 /\ app'.is_state_finished
                 /\ \E rnd \in UpdateRandoms :
                       \E st \in {RunManagerUpdate(now, rnd)} :
                           /\ \A k \in 1..Len(app.blocking_effects) :
                                 st.fx[app.blocking_effects[k]]._is_finished
                           /\ hw' = st.hw
           /\ (j = i /\ app.pc = "loop" /\ app'.pc = "loop" /\ now' # now /\ i < 4) =>
                 \E k \in 1..Len(app.blocking_effects) :
                     ~fx'[app.blocking_effects[k]]._is_finished]_vars

\* the loop has gone through the four states
C37_Witness ==
    /\ app.pc = "loop"
    /\ app.current_state = "STATE_4_IDLE"
    /\ app.is_state_finished = FALSE

\* C38: from the successful setup on, if the loop keeps iterating, run() reaches
\* STATE_4_IDLE unless it is interrupted from outside.
C38_ReachesIdle ==
    <>(app.current_state = "STATE_4_IDLE" \/ app.exception \in {"KeyboardInterrupt", "Exception"})

\* with two DRAM sticks it does
C38_TwoSticksReachIdle ==
    (app.sticks = 2) ~> (app.current_state = "STATE_4_IDLE" \/ app.exception # "none")

\* once in STATE_4_IDLE the loop stays in it: its blocking effects never all finish
C38_IdleKept ==
    [][app.current_state = "STATE_4_IDLE" =>
          /\ app'.current_state = "STATE_4_IDLE"
          /\ (app'.pc = "loop" => ~is_state_finished(app'.blocking_effects, fx'))]_vars

\* the loop keeps ticking while time advances: an iteration that can begin is not put
\* off for ever; and the finally clause, once entered, runs to its end
LoopTicks ==
    /\ app.pc = "loop"
    /\ now + app.period <= RunMaxTime
    /\ now' = now + app.period

SpecRunFair ==
    InitRun /\ [][NextRun]_vars /\ WF_now(LoopTicks) /\ WF_vars(RunCleanup \/ RunDone)

====
